---------------------------- MODULE Spec2Model ----------------------------
(***************************************************************************)
(* A model of the RomanticOS kernel runtime: the process manager and its   *)
(* round-robin scheduler (src/src/process.rs), the system-call dispatcher  *)
(* and its statistics (src/syscall.rs), the int 0x80 trap handler          *)
(* (src/interrupts.rs), the timer-driven kernel main line (src/main.rs,    *)
(* src/timer.rs, src/src/memory.rs), the in-memory virtual file system     *)
(* (src/src/filesystem.rs), the keyboard driver and the text console       *)
(* (src/src/drivers).                                                      *)
(*                                                                         *)
(* Fifteen specifications are given.                                       *)
(*   Spec        the process manager's five methods, each call one atomic  *)
(*               step (every method runs under the PROCESS_MANAGER lock).  *)
(*   SpecSys     processes that are added and scheduled, with the          *)
(*               system-call dispatcher and the int 0x80 trap.             *)
(*   SpecKernel  the boot main line (spawn_process, scheduler::start) with *)
(*               the timer interrupt interleaved at lock granularity.      *)
(*   SpecTree    the file system's name space: create, mkdir, list_dir.    *)
(*   SpecFd      the descriptor table: open and close.                     *)
(*   SpecIO      read and write through the descriptors of one file.       *)
(*   SpecOrder   two file systems built by the same creations.             *)
(*   SpecSysIO   the read and write system calls on descriptors of a file. *)
(*   SpecKbd     the keyboard interrupt against read_bytes.                *)
(*   SpecFrames  the frame allocator on the boot memory maps.              *)
(*   SpecTimer   the tick counter and the uptime in a machine word.        *)
(*   SpecConsole the main line printing, with the keyboard interrupt.      *)
(*   SpecLocks   the lock-taking functions, with both interrupts.          *)
(*   SpecLive    create, mkdir, open and close on nested paths.            *)
(*   SpecBoot    the initialization calls of kernel_main, in their order.  *)
(***************************************************************************)
EXTENDS Integers, Sequences, FiniteSets, TLC

(***************************************************************************)
(* Bounds of the model.                                                    *)
(***************************************************************************)
\* processes ever created (caps PID_COUNTER)
MaxProcs == 3
\* calls of schedule() (caps scheduler_ticks)
MaxTicks == 6
\* bytes the keyboard queue holds (256 in the kernel)
KEYBOARD_BUFFER_SIZE == 2
\* keyboard interrupts in a behaviour
MaxKeys == 4
\* rows and columns of the text screen (25 and 80 in the kernel)
BUFFER_HEIGHT == 3
BUFFER_WIDTH == 4
\* bits of the machine word (usize, 64 in the kernel) in SpecTimer
UsizeBits == 10
\* frames the boot memory maps of SpecFrames cover
MaxFrame == 5
\* calls of syscall_handler plus int 0x80 traps (caps total_calls)
MaxCalls == 2
\* 4 KiB frames in the Usable regions of the boot memory map
UsableFrames == 40
\* slots of VirtualFileSystem.inodes (the kernel builds it with 1024)
NumInodes == 3
\* slots of the descriptor table (1024 in the kernel)
MAX_OPEN_FILES == 2
\* largest size of a file in bytes (1 MiB in the kernel)
MAX_FILE_SIZE == 2
\* longest buffer handed to read or write
MaxBuf == 2
\* most pieces between the slashes of a path
MaxDepth == 2

(***************************************************************************)
(* Program constants.                                                      *)
(***************************************************************************)
\* enum ProcessState
Ready      == "Ready"
Running    == "Running"
Blocked    == "Blocked"
Terminated == "Terminated"
ProcessState == {Ready, Running, Blocked, Terminated}

\* Option::None of current_pid and of schedule()'s result; pids start at 1
None == 0

\* system-call numbers
SYS_SLEEP  == 35
SYS_GETPID == 39
SYS_FORK   == 57
SYS_EXECVE == 59
SYS_EXIT   == 60
\* length of SyscallStats.calls_by_type
NumCallTypes == 256
\* memory.rs: heap size in bytes, page size, pages of a user stack
HEAP_SIZE  == 102400
PageSize   == 4096
StackPages == 4
\* pages init_heap maps, one frame each
HeapPages  == (HEAP_SIZE + PageSize - 1) \div PageSize

VARIABLES
    \* ---- process.rs
    PID_COUNTER,      \* static AtomicUsize
    processes,        \* ProcessManager.processes : Vec<Process>
    ready_queue,      \* ProcessManager.ready_queue : VecDeque<usize>
    current_pid,      \* ProcessManager.current_pid : Option<usize>
    scheduler_ticks,  \* ProcessManager.scheduler_ticks
    \* ---- syscall.rs
    total_calls,      \* SyscallStats.total_calls
    calls_by_type,    \* SyscallStats.calls_by_type : [u64; 256], kept as
                      \* its non-zero entries (see Entry)
    \* ---- timer.rs, memory.rs and the CPU (SpecKernel)
    TICKS,            \* static AtomicUsize of timer.rs
    pc,               \* where the main line stands
    lock,             \* holder of the PROCESS_MANAGER spin lock
    irq,              \* the timer handler: "idle", or "spin" on the lock
    next,             \* BootInfoFrameAllocator.next
    user_pages,       \* pages mapped from USER_SPACE_START on (as offsets)
    \* ---- the caller's view
    rax,              \* value the last call handed back to its caller
    panicked,         \* the panic handler was entered (main line halted)
    \* ---- history (not program state)
    op,               \* name of the last operation
    arg,              \* its input (pid, system-call number, descriptor or path)
    sel,              \* results of schedule() since the last other operation
    order,            \* cyclic ready order when that operation finished
    exited,           \* pids that were current when sys_exit ran
    big_calls,        \* dispatcher calls made with a number >= 256
    traps,            \* int 0x80 traps taken
    spawns,           \* calls of spawn_process
    \* ---- filesystem.rs
    vfs,              \* static FILESYSTEM : the VirtualFileSystem
    out,              \* what the last call wrote for its caller (bytes, names)
    was_open,         \* the descriptor given to the last call was open then
    fd_arg,           \* (history) descriptor given to the last system call
    \* ---- filesystem.rs, a second instance (SpecOrder)
    vfs2,             \* a VirtualFileSystem built in another order
    made,             \* paths created in vfs, with their kinds
    made2,            \* paths created in vfs2, with their kinds
    \* ---- drivers/keyboard.rs
    buffer,           \* KeyboardDriver.buffer : VecDeque<u8>
    kbd_lock,         \* holder of the KEYBOARD spin lock
    read_pc,          \* where the main line stands in read_bytes
    dst,              \* length of the slice given to read_bytes
    accepted,         \* (history) bytes add_byte has queued, in arrival order
    returned,         \* (history) bytes read_bytes has handed out, in order
    keys,             \* (history) keyboard interrupts taken
    \* ---- drivers/vga.rs
    CURSOR_ROW,       \* static mut CURSOR_ROW
    CURSOR_COL,       \* static mut CURSOR_COL
    glyphs,           \* (history) cells the last step stored a glyph in
    wpc,              \* where the main line stands in _print
    pending,          \* bytes of its string not yet written
    lrow,             \* write_byte's local row, new_line's loaded CURSOR_ROW
    lcol,             \* write_byte's local col
    \* ---- the spin locks as the main line takes them (SpecLocks)
    held,             \* locks the main line holds, in the order taken
    in_fn,            \* the function the main line is in
    at,               \* the next acquisition or release of that function
    \* ---- memory.rs, the frame allocator
    memory_map,       \* BootInfoFrameAllocator.memory_map : the regions
    frames,           \* (history) frames allocate_frame has returned
    \* ---- timer.rs
    uptime,           \* (history) the last value of get_uptime_ms, -1: none
    \* ---- main.rs, the bring-up (SpecBoot)
    stage,            \* the call kernel_main makes next
    inits,            \* (history) initializations completed, in order
    ints,             \* the CPU's interrupt flag
    singletons,       \* the Mutex<Option<_>> statics that hold Some
    heap_mapped,      \* pages of the heap range that are mapped
    heap_init,        \* ALLOCATOR.lock().init(..) has run
    allocs            \* (history) callers of the heap allocator

pmVars   == <<PID_COUNTER, processes, ready_queue, current_pid, scheduler_ticks>>
sysVars  == <<total_calls, calls_by_type>>
kernVars == <<TICKS, pc, lock, irq, next, user_pages>>
histVars == <<op, arg, sel, order, exited, big_calls, traps, spawns>>
fsVars   == <<vfs, out, was_open, vfs2, made, made2>>
ioVars   == <<fd_arg>>
kbdVars  == <<buffer, kbd_lock, read_pc, dst, accepted, returned, keys>>
conVars  == <<CURSOR_ROW, CURSOR_COL, glyphs>>
memVars  == <<memory_map, frames>>
timVars  == <<uptime>>
prtVars  == <<wpc, pending, lrow, lcol>>
ordVars  == <<held, in_fn, at>>
bootVars == <<stage, inits, ints, singletons, heap_mapped, heap_init,
              allocs>>
devVars  == <<kbdVars, conVars, ioVars, memVars, timVars, prtVars,
              ordVars, bootVars>>
vars     == <<pmVars, sysVars, kernVars, rax, panicked, histVars, fsVars,
              devVars>>


(***************************************************************************)
(* filesystem.rs: the in-memory virtual file system.  The methods of       *)
(* VirtualFileSystem are operators from a file system (and the call's      *)
(* inputs) to a result that carries the file system the call leaves.       *)
(***************************************************************************)

\* enum FileType
Regular   == "Regular"
Directory == "Directory"
Device    == "Device"
FileType  == {Regular, Directory, Device}

\* FileMode::from_bits: the owner bits 0o400, 0o200 and 0o100
from_bits(bits) ==
    [read    |-> (bits \div 256) % 2 = 1,
     write   |-> (bits \div 128) % 2 = 1,
     execute |-> (bits \div 64) % 2 = 1]

\* String's Ord on the names the model uses (the order of a BTreeMap's keys)
NameOrder == <<"a", "b">>
Names == {NameOrder[i] : i \in 1..Len(NameOrder)}
Rank(name) == CHOOSE i \in 1..Len(NameOrder) : NameOrder[i] = name

\* Inode.children : BTreeMap<String, usize>, kept as its entries in key order
BTreeGet(children, name) ==
    LET hits == {i \in 1..Len(children) : children[i].name = name}
    IN  IF hits = {} THEN [some |-> FALSE, val |-> -1]
        ELSE [some |-> TRUE, val |-> children[CHOOSE i \in hits : TRUE].inode]

\* (mutant) a map that keeps its entries in insertion order
BTreeInsertAtEnd(children, name, ino) ==
    IF \E i \in 1..Len(children) : children[i].name = name
    THEN [i \in 1..Len(children) |->
             IF children[i].name = name
             THEN [name |-> name, inode |-> ino] ELSE children[i]]
    ELSE Append(children, [name |-> name, inode |-> ino])

\* BTreeMap::insert: replaces the value of a key that is present
BTreeInsert(children, name, ino) ==
    IF \E i \in 1..Len(children) : children[i].name = name
    THEN [i \in 1..Len(children) |->
             IF children[i].name = name
             THEN [name |-> name, inode |-> ino] ELSE children[i]]
    ELSE LET k == Cardinality({i \in 1..Len(children) :
                                  Rank(children[i].name) < Rank(name)})
         IN  SubSeq(children, 1, k) \o <<[name |-> name, inode |-> ino]>>
               \o SubSeq(children, k + 1, Len(children))

\* BTreeMap::keys().cloned().collect()
BTreeKeys(children) == [i \in 1..Len(children) |-> children[i].name]

\* Inode::new_file
new_file(inode_num, mode) ==
    [inode_num |-> inode_num, file_type |-> Regular, mode |-> mode,
     size |-> 0, data |-> <<>>, children |-> <<>>]

\* Inode::new_dir
new_dir(inode_num, mode) ==
    [inode_num |-> inode_num, file_type |-> Directory, mode |-> mode,
     size |-> 0, data |-> <<>>, children |-> <<>>]

\* VirtualFileSystem::new: both tables empty but for the root directory.
\* A table is kept as its Some slots: slot i is None iff i is not in the
\* table's DOMAIN.
VfsNew ==
    [inodes      |-> (0 :> new_dir(0, from_bits(448))),
     open_files  |-> [fd \in {} |-> 0],
     next_inode  |-> 1,
     root_inode  |-> 0]

\* Result<_, &'static str> of a method, with the file system it leaves; out
\* is what the call wrote for its caller (read's bytes, list_dir's names)
Done(fs, val, bytes) ==
    [fs |-> fs, ok |-> TRUE, val |-> val, err |-> "", out |-> bytes]
Fail(fs, err) ==
    [fs |-> fs, ok |-> FALSE, val |-> -1, err |-> err, out |-> <<>>]

\* path.split('/').filter(|s| !s.is_empty()): a path is given as the pieces
\* between its slashes
Split(path) == SelectSeq(path, LAMBDA s : s # "")

\* (mutant) the limit test lets one number past the table through
allocate_inode_past_end(fs) ==
    IF fs.next_inode > NumInodes
    THEN [some |-> FALSE, val |-> -1, fs |-> fs]
    ELSE [some |-> TRUE, val |-> fs.next_inode,
          fs |-> [fs EXCEPT !.next_inode = @ + 1]]

\* VirtualFileSystem::allocate_inode
allocate_inode(fs) ==
    IF fs.next_inode >= NumInodes
    THEN [some |-> FALSE, val |-> -1, fs |-> fs]
    ELSE [some |-> TRUE, val |-> fs.next_inode,
          fs |-> [fs EXCEPT !.next_inode = @ + 1]]

\* (mutant) the free slot with the highest index
allocate_fd_from_top(fs) ==
    LET free == {i \in 0..(MAX_OPEN_FILES - 1) : i \notin DOMAIN fs.open_files}
    IN  IF free = {} THEN [some |-> FALSE, val |-> -1]
        ELSE [some |-> TRUE,
              val |-> CHOOSE i \in free : \A j \in free : j <= i]

\* VirtualFileSystem::allocate_fd: the first None slot, counting from 0
allocate_fd(fs) ==
    LET free == {i \in 0..(MAX_OPEN_FILES - 1) : i \notin DOMAIN fs.open_files}
    IN  IF free = {} THEN [some |-> FALSE, val |-> -1]
        ELSE [some |-> TRUE,
              val |-> CHOOSE i \in free : \A j \in free : i <= j]

\* VirtualFileSystem::traverse_path, from the loop's inode `current` on
RECURSIVE traverse_path(_, _, _)
traverse_path(fs, current, parts) ==
    IF parts = <<>> THEN Done(fs, current, <<>>)
    ELSE IF current \notin DOMAIN fs.inodes THEN Fail(fs, "Invalid inode")
    ELSE IF fs.inodes[current].file_type # Directory
         THEN Fail(fs, "Not a directory")
    ELSE LET child == BTreeGet(fs.inodes[current].children, Head(parts))
         IN  IF ~child.some THEN Fail(fs, "Path not found")
             ELSE traverse_path(fs, child.val, Tail(parts))

\* (mutant) the name is entered in the parent, the inode is not stored
LinkUnstored(fs, parent, name, inode) ==
    [fs EXCEPT !.inodes[parent].children =
        BTreeInsert(@, name, inode.inode_num)]

\* the tail of create and mkdir: store the inode, enter it in the parent
Link(fs, parent, name, inode) ==
    LET stored == [i \in DOMAIN fs.inodes \cup {inode.inode_num} |->
                      IF i = inode.inode_num THEN inode ELSE fs.inodes[i]]
    IN  [fs EXCEPT !.inodes =
            [stored EXCEPT ![parent].children =
                BTreeInsert(@, name, inode.inode_num)]]

\* (mutant) create without the look-up of the name in the parent
vfs_create_unchecked(fs, path, mode) ==
    LET parts == Split(path)
    IN  IF parts = <<>> THEN Fail(fs, "Invalid path")
        ELSE
        LET filename == parts[Len(parts)]
            parent   == traverse_path(fs, fs.root_inode,
                                      SubSeq(parts, 1, Len(parts) - 1))
        IN  IF ~parent.ok THEN Fail(fs, parent.err)
            ELSE LET a == allocate_inode(fs)
                 IN  IF ~a.some THEN Fail(fs, "Out of inodes")
                     ELSE Done(Link(a.fs, parent.val, filename,
                                    new_file(a.val, mode)), a.val, <<>>)

\* VirtualFileSystem::create
vfs_create(fs, path, mode) ==
    LET parts == Split(path)
    IN  IF parts = <<>> THEN Fail(fs, "Invalid path")
        ELSE
        LET filename == parts[Len(parts)]
            parent   == traverse_path(fs, fs.root_inode,
                                      SubSeq(parts, 1, Len(parts) - 1))
        IN  IF ~parent.ok THEN Fail(fs, parent.err)
            ELSE IF parent.val \in DOMAIN fs.inodes
                    /\ BTreeGet(fs.inodes[parent.val].children, filename).some
                 THEN Fail(fs, "File already exists")
            ELSE LET a == allocate_inode(fs)
                 IN  IF ~a.some THEN Fail(fs, "Out of inodes")
                     ELSE Done(Link(a.fs, parent.val, filename,
                                    new_file(a.val, mode)), a.val, <<>>)

\* VirtualFileSystem::mkdir
vfs_mkdir(fs, path, mode) ==
    LET parts == Split(path)
    IN  IF parts = <<>> THEN Fail(fs, "Invalid path")
        ELSE
        LET dirname == parts[Len(parts)]
            parent  == traverse_path(fs, fs.root_inode,
                                     SubSeq(parts, 1, Len(parts) - 1))
        IN  IF ~parent.ok THEN Fail(fs, parent.err)
            ELSE LET a == allocate_inode(fs)
                 IN  IF ~a.some THEN Fail(fs, "Out of inodes")
                     ELSE Done(Link(a.fs, parent.val, dirname,
                                    new_dir(a.val, mode)), a.val, <<>>)

\* VirtualFileSystem::open
vfs_open(fs, path, flags) ==
    LET inode == traverse_path(fs, fs.root_inode, Split(path))
        fd    == allocate_fd(fs)
    IN  IF ~inode.ok THEN Fail(fs, inode.err)
        ELSE IF ~fd.some THEN Fail(fs, "Too many open files")
        ELSE Done([fs EXCEPT !.open_files =
                      [i \in DOMAIN fs.open_files \cup {fd.val} |->
                          IF i = fd.val
                          THEN [inode |-> inode.val, offset |-> 0,
                                flags |-> flags]
                          ELSE fs.open_files[i]]],
                  fd.val, <<>>)

\* VirtualFileSystem::close
vfs_close(fs, fd) ==
    IF fd < 0 \/ fd >= MAX_OPEN_FILES
    THEN Fail(fs, "Invalid file descriptor")
    ELSE Done([fs EXCEPT !.open_files =
                  [i \in DOMAIN fs.open_files \ {fd} |-> fs.open_files[i]]],
              0, <<>>)

Min(a, b) == IF a <= b THEN a ELSE b
Max(a, b) == IF a >= b THEN a ELSE b

\* (mutant) a read that leaves the descriptor's offset where it was
vfs_read_in_place(fs, fd, n) ==
    IF fd < 0 \/ fd >= MAX_OPEN_FILES
    THEN Fail(fs, "Invalid file descriptor")
    ELSE IF fd \notin DOMAIN fs.open_files THEN Fail(fs, "File not open")
    ELSE
    LET open_file == fs.open_files[fd]
    IN  IF open_file.inode \notin DOMAIN fs.inodes
        THEN Fail(fs, "Invalid inode")
        ELSE
        LET inode == fs.inodes[open_file.inode]
            start == open_file.offset
            end   == Min(start + n, Len(inode.data))
        IN  IF ~inode.mode.read THEN Fail(fs, "Permission denied")
            ELSE IF end < start THEN Fail(fs, "panic")
            ELSE Done(fs, end - start, SubSeq(inode.data, start + 1, end))

\* VirtualFileSystem::read with a buffer of n bytes; `end - start` and the
\* slice data[start..end] panic when the offset is past the data
vfs_read(fs, fd, n) ==
    IF fd < 0 \/ fd >= MAX_OPEN_FILES
    THEN Fail(fs, "Invalid file descriptor")
    ELSE IF fd \notin DOMAIN fs.open_files THEN Fail(fs, "File not open")
    ELSE
    LET open_file == fs.open_files[fd]
    IN  IF open_file.inode \notin DOMAIN fs.inodes
        THEN Fail(fs, "Invalid inode")
        ELSE
        LET inode == fs.inodes[open_file.inode]
            start == open_file.offset
            end   == Min(start + n, Len(inode.data))
        IN  IF ~inode.mode.read THEN Fail(fs, "Permission denied")
            ELSE IF end < start THEN Fail(fs, "panic")
            ELSE Done([fs EXCEPT !.open_files[fd].offset = end],
                      end - start, SubSeq(inode.data, start + 1, end))

\* data.resize(len, 0) followed by data[start..start + buf.len()] = buf
Patch(data, start, buf) ==
    [i \in 1..Max(Len(data), start + Len(buf)) |->
        IF i > start /\ i <= start + Len(buf) THEN buf[i - start]
        ELSE IF i <= Len(data) THEN data[i] ELSE 0]

\* (mutant) a write that lets a file grow past MAX_FILE_SIZE
vfs_write_unlimited(fs, fd, buf) ==
    IF fd < 0 \/ fd >= MAX_OPEN_FILES
    THEN Fail(fs, "Invalid file descriptor")
    ELSE IF fd \notin DOMAIN fs.open_files THEN Fail(fs, "File not open")
    ELSE
    LET open_file == fs.open_files[fd]
    IN  IF open_file.inode \notin DOMAIN fs.inodes
        THEN Fail(fs, "Invalid inode")
        ELSE
        LET inode == fs.inodes[open_file.inode]
            start == open_file.offset
            end   == start + Len(buf)
        IN  IF ~inode.mode.write THEN Fail(fs, "Permission denied")
            ELSE Done([fs EXCEPT
                          !.inodes[open_file.inode].data =
                              Patch(@, start, buf),
                          !.inodes[open_file.inode].size = Max(@, end),
                          !.open_files[fd].offset = end],
                      Len(buf), <<>>)

\* (mutant) a write that puts the bytes at the start of the file
vfs_write_at_start(fs, fd, buf) ==
    IF fd < 0 \/ fd >= MAX_OPEN_FILES
    THEN Fail(fs, "Invalid file descriptor")
    ELSE IF fd \notin DOMAIN fs.open_files THEN Fail(fs, "File not open")
    ELSE
    LET open_file == fs.open_files[fd]
    IN  IF open_file.inode \notin DOMAIN fs.inodes
        THEN Fail(fs, "Invalid inode")
        ELSE
        LET inode == fs.inodes[open_file.inode]
            start == open_file.offset
            end   == start + Len(buf)
        IN  IF ~inode.mode.write THEN Fail(fs, "Permission denied")
            ELSE IF end > Len(inode.data) /\ end > MAX_FILE_SIZE
                 THEN Fail(fs, "File too large")
            ELSE Done([fs EXCEPT
                          !.inodes[open_file.inode].data =
                              Patch(Patch(@, end, <<>>), 0, buf),
                          !.inodes[open_file.inode].size = Max(@, end),
                          !.open_files[fd].offset = end],
                      Len(buf), <<>>)

\* (mutant) a write that sets the size to its own end, without the max
vfs_write_size_is_end(fs, fd, buf) ==
    IF fd < 0 \/ fd >= MAX_OPEN_FILES
    THEN Fail(fs, "Invalid file descriptor")
    ELSE IF fd \notin DOMAIN fs.open_files THEN Fail(fs, "File not open")
    ELSE
    LET open_file == fs.open_files[fd]
    IN  IF open_file.inode \notin DOMAIN fs.inodes
        THEN Fail(fs, "Invalid inode")
        ELSE
        LET inode == fs.inodes[open_file.inode]
            start == open_file.offset
            end   == start + Len(buf)
        IN  IF ~inode.mode.write THEN Fail(fs, "Permission denied")
            ELSE IF end > Len(inode.data) /\ end > MAX_FILE_SIZE
                 THEN Fail(fs, "File too large")
            ELSE Done([fs EXCEPT
                          !.inodes[open_file.inode].data =
                              Patch(@, start, buf),
                          !.inodes[open_file.inode].size = end,
                          !.open_files[fd].offset = end],
                      Len(buf), <<>>)

\* VirtualFileSystem::write
vfs_write(fs, fd, buf) ==
    IF fd < 0 \/ fd >= MAX_OPEN_FILES
    THEN Fail(fs, "Invalid file descriptor")
    ELSE IF fd \notin DOMAIN fs.open_files THEN Fail(fs, "File not open")
    ELSE
    LET open_file == fs.open_files[fd]
    IN  IF open_file.inode \notin DOMAIN fs.inodes
        THEN Fail(fs, "Invalid inode")
        ELSE
        LET inode == fs.inodes[open_file.inode]
            start == open_file.offset
            end   == start + Len(buf)
        IN  IF ~inode.mode.write THEN Fail(fs, "Permission denied")
            ELSE IF end > Len(inode.data) /\ end > MAX_FILE_SIZE
                 THEN Fail(fs, "File too large")
            ELSE Done([fs EXCEPT
                          !.inodes[open_file.inode].data =
                              Patch(@, start, buf),
                          !.inodes[open_file.inode].size = Max(@, end),
                          !.open_files[fd].offset = end],
                      Len(buf), <<>>)

\* VirtualFileSystem::list_dir
vfs_list_dir(fs, path) ==
    LET inode == traverse_path(fs, fs.root_inode, Split(path))
    IN  IF ~inode.ok THEN Fail(fs, inode.err)
        ELSE IF inode.val \notin DOMAIN fs.inodes THEN Fail(fs, "Invalid inode")
        ELSE IF fs.inodes[inode.val].file_type # Directory
             THEN Fail(fs, "Not a directory")
        ELSE Done(fs, 0, BTreeKeys(fs.inodes[inode.val].children))

\* the value the kernel-wide wrappers (open, close, read, write) hand back
Ret(r) == IF r.ok THEN r.val ELSE -1

(***************************************************************************)
(* process.rs: Process and ProcessManager.  A process is modelled by its   *)
(* pid and lifecycle state; context, stacks, priority and time_slice are   *)
(* written once by Process::new and read by no method of the manager.      *)
(***************************************************************************)

\* (mutant) a load in place of the fetch_add: the counter is not advanced
FetchNoAdd(counter) == counter

\* PID_COUNTER.fetch_add(1): the counter after handing out a pid
FetchAdd(counter) == counter + 1

\* Process::new: the pid is the counter's value before the increment
ProcessNew(counter) == [pid |-> counter, state |-> Ready]

\* processes.iter().find(|p| p.pid == pid): index of the first match, 0 if none
Find(procs, pid) ==
    LET I == {i \in 1..Len(procs) : procs[i].pid = pid}
    IN  IF I = {} THEN 0 ELSE CHOOSE i \in I : \A j \in I : i <= j

\* get_current_process / get_current_process_mut
get_current_process(procs, cur) ==
    IF cur = None THEN 0 ELSE Find(procs, cur)

SetState(procs, i, s) == [procs EXCEPT ![i].state = s]

\* (mutant) the current process is re-queued but left Running
PreemptKeepRunning(procs, q, cur) ==
    LET i == get_current_process(procs, cur)
    IN  IF i # 0 /\ procs[i].state = Running
        THEN [processes |-> procs, ready_queue |-> Append(q, procs[i].pid)]
        ELSE [processes |-> procs, ready_queue |-> q]

\* (mutant) push_front in place of push_back
PreemptToFront(procs, q, cur) ==
    LET i == get_current_process(procs, cur)
    IN  IF i # 0 /\ procs[i].state = Running
        THEN [processes   |-> SetState(procs, i, Ready),
              ready_queue |-> <<procs[i].pid>> \o q]
        ELSE [processes |-> procs, ready_queue |-> q]

\* schedule, first half: a current process that is still Running goes back
\* to Ready and to the back of the ready queue
Preempt(procs, q, cur) ==
    LET i == get_current_process(procs, cur)
    IN  IF i # 0 /\ procs[i].state = Running
        THEN [processes   |-> SetState(procs, i, Ready),
              ready_queue |-> Append(q, procs[i].pid)]
        ELSE [processes |-> procs, ready_queue |-> q]

\* (mutant) front() in place of pop_front(): the selected entry stays queued
SelectNextLeavesEntry(procs, q) ==
    IF q = <<>>
    THEN [processes |-> procs, ready_queue |-> q, selected |-> None]
    ELSE LET pid == Head(q)
             i   == Find(procs, pid)
         IN  IF i # 0 /\ procs[i].state = Ready
             THEN [processes   |-> SetState(procs, i, Running),
                   ready_queue |-> q,
                   selected    |-> pid]
             ELSE [processes |-> procs, ready_queue |-> Tail(q),
                   selected |-> None]

\* schedule, second half: pop ids from the head until one names a Ready
\* process; that one becomes Running
RECURSIVE SelectNext(_, _)
SelectNext(procs, q) ==
    IF q = <<>>
    THEN [processes |-> procs, ready_queue |-> q, selected |-> None]
    ELSE LET pid == Head(q)
             i   == Find(procs, pid)
         IN  IF i # 0 /\ procs[i].state = Ready
             THEN [processes   |-> SetState(procs, i, Running),
                   ready_queue |-> Tail(q),
                   selected    |-> pid]
             ELSE SelectNext(procs, Tail(q))

\* (mutant) the current process is parked as Ready in place of Terminated
TerminateLeavesReady(procs, cur) ==
    LET i == get_current_process(procs, cur)
    IN  IF i # 0 THEN SetState(procs, i, Ready) ELSE procs

\* terminate_current: the table after the call
TerminateEffect(procs, cur) ==
    LET i == get_current_process(procs, cur)
    IN  IF i # 0 THEN SetState(procs, i, Terminated) ELSE procs

\* block_current: the table after the call
BlockEffect(procs, cur) ==
    LET i == get_current_process(procs, cur)
    IN  IF i # 0 THEN SetState(procs, i, Blocked) ELSE procs

\* (mutant) the pid is queued whatever the state of its process
UnblockQueuesAlways(procs, q, pid) ==
    LET i == Find(procs, pid)
    IN  IF i # 0
        THEN [processes   |-> IF procs[i].state = Blocked
                              THEN SetState(procs, i, Ready) ELSE procs,
              ready_queue |-> Append(q, pid)]
        ELSE [processes |-> procs, ready_queue |-> q]

\* (mutant) a Terminated process is revived like a Blocked one
UnblockRevives(procs, q, pid) ==
    LET i == Find(procs, pid)
    IN  IF i # 0 /\ procs[i].state \in {Blocked, Terminated}
        THEN [processes   |-> SetState(procs, i, Ready),
              ready_queue |-> Append(q, pid)]
        ELSE [processes |-> procs, ready_queue |-> q]

\* unblock_process: table and queue after the call
UnblockEffect(procs, q, pid) ==
    LET i == Find(procs, pid)
    IN  IF i # 0 /\ procs[i].state = Blocked
        THEN [processes   |-> SetState(procs, i, Ready),
              ready_queue |-> Append(q, pid)]
        ELSE [processes |-> procs, ready_queue |-> q]

(***************************************************************************)
(* History bookkeeping.                                                    *)
(***************************************************************************)

\* the order in which schedule() will meet the runnable processes: the ready
\* queue, then the current process (which schedule re-admits at the back)
CyclicOrder(procs, q, cur) ==
    LET i == get_current_process(procs, cur)
    IN  IF i # 0 /\ procs[i].state = Running THEN Append(q, cur) ELSE q

\* an operation that changes the process table restarts the selection record
Disturb(name, a) ==
    /\ op' = name
    /\ arg' = a
    /\ sel' = <<>>
    /\ order' = CyclicOrder(processes', ready_queue', current_pid')

\* an operation that leaves the process manager alone
Note(name, a) ==
    /\ op' = name
    /\ arg' = a
    /\ UNCHANGED <<sel, order>>

(***************************************************************************)
(* The process manager's methods, one atomic step each.  The main line     *)
(* calls them; after a panic only interrupt handlers run, and of these the *)
(* timer handler calls schedule().                                         *)
(***************************************************************************)

\* a region of the boot memory map: frames start .. end - 1
Region(start, end, type) == [start |-> start, end |-> end, type |-> type]

\* the map the kernel is booted with: one usable region
BootMap == <<Region(0, UsableFrames, "Usable")>>

\* the state after construction, but for the tick counter and the frame
\* allocator
Boot ==
    /\ PID_COUNTER = 1
    /\ processes = <<>>
    /\ ready_queue = <<>>
    /\ current_pid = None
    /\ scheduler_ticks = 0
    /\ total_calls = 0
    /\ calls_by_type = [n \in {} |-> 0]
    /\ rax = 0
    /\ panicked = FALSE
    /\ op = "init"
    /\ arg = 0
    /\ sel = <<>>
    /\ order = <<>>
    /\ exited = {}
    /\ big_calls = 0
    /\ traps = 0
    /\ spawns = 0
    /\ pc = "main"
    /\ lock = "free"
    /\ irq = "idle"
    /\ user_pages = {}
    /\ vfs = VfsNew
    /\ out = <<>>
    /\ was_open = FALSE
    /\ vfs2 = VfsNew
    /\ made = {}
    /\ made2 = {}
    /\ buffer = <<>>
    /\ kbd_lock = "free"
    /\ read_pc = "idle"
    /\ dst = 0
    /\ accepted = <<>>
    /\ returned = <<>>
    /\ keys = 0
    /\ CURSOR_ROW = 0
    /\ CURSOR_COL = 0
    /\ glyphs = {}
    /\ wpc = "idle"
    /\ pending = <<>>
    /\ lrow = 0
    /\ lcol = 0
    /\ held = <<>>
    /\ in_fn = ""
    /\ at = 1
    /\ fd_arg = -1
    /\ frames = <<>>
    /\ uptime = -1

\* the order in which kernel_main completes its initializations (vga::init
\* is the first call of drivers::init)
BringUp == <<"gdt", "idt", "memory", "heap", "processes", "filesystem",
             "console", "drivers", "syscalls">>

\* the statics behind a Mutex<Option<_>>
Singletons == {"MEMORY_MANAGER", "PROCESS_MANAGER", "FILESYSTEM", "KEYBOARD"}

\* kernel_main has made its last initialization call
BroughtUp ==
    /\ stage = "demo"
    /\ inits = BringUp
    /\ ints = TRUE
    /\ singletons = Singletons
    /\ heap_mapped = HeapPages
    /\ heap_init = TRUE
    /\ allocs = {"filesystem", "keyboard"}

\* the kernel after its bring-up: no tick yet, the heap's frames taken
Init ==
    /\ Boot
    /\ BroughtUp
    /\ TICKS = 0
    /\ next = HeapPages
    /\ memory_map = BootMap

\* Process::new followed by add_process (as spawn_process does under the lock)
add_process ==
    /\ UNCHANGED <<fsVars, devVars>>
    /\ ~panicked
    /\ PID_COUNTER <= MaxProcs
    /\ LET process == ProcessNew(PID_COUNTER)
       IN  /\ PID_COUNTER' = FetchAdd(PID_COUNTER)
           /\ processes' = Append(processes, process)
           /\ ready_queue' = Append(ready_queue, process.pid)
           /\ rax' = process.pid
    /\ UNCHANGED <<current_pid, scheduler_ticks, sysVars, panicked,
                   exited, big_calls, traps, spawns, kernVars>>
    /\ Disturb("add_process", 0)

\* schedule(): the tick counter, the demotion of the current process, the
\* selection; None leaves current_pid as it was
ScheduleCall ==
    /\ scheduler_ticks' = scheduler_ticks + 1
    /\ LET pre == Preempt(processes, ready_queue, current_pid)
           nxt == SelectNext(pre.processes, pre.ready_queue)
       IN  /\ processes' = nxt.processes
           /\ ready_queue' = nxt.ready_queue
           /\ current_pid' =
                 IF nxt.selected # None THEN nxt.selected ELSE current_pid
           /\ rax' = nxt.selected
           /\ sel' = Append(sel, nxt.selected)
    /\ op' = "schedule"
    /\ arg' = 0
    /\ UNCHANGED <<PID_COUNTER, order>>

schedule ==
    /\ UNCHANGED <<fsVars, devVars>>
    /\ scheduler_ticks < MaxTicks
    /\ ScheduleCall
    /\ UNCHANGED <<sysVars, panicked, exited, big_calls, traps, spawns,
                   kernVars>>

terminate_current ==
    /\ UNCHANGED <<fsVars, devVars>>
    /\ ~panicked
    /\ processes' = TerminateEffect(processes, current_pid)
    /\ current_pid' = None
    /\ rax' = 0
    /\ UNCHANGED <<PID_COUNTER, ready_queue, scheduler_ticks, sysVars,
                   panicked, exited, big_calls, traps, spawns, kernVars>>
    /\ Disturb("terminate_current", 0)

block_current ==
    /\ UNCHANGED <<fsVars, devVars>>
    /\ ~panicked
    /\ processes' = BlockEffect(processes, current_pid)
    /\ current_pid' = None
    /\ rax' = 0
    /\ UNCHANGED <<PID_COUNTER, ready_queue, scheduler_ticks, sysVars,
                   panicked, exited, big_calls, traps, spawns, kernVars>>
    /\ Disturb("block_current", 0)

unblock_process(pid) ==
    /\ UNCHANGED <<fsVars, devVars>>
    /\ ~panicked
    /\ LET r == UnblockEffect(processes, ready_queue, pid)
       IN  /\ processes' = r.processes
           /\ ready_queue' = r.ready_queue
    /\ rax' = 0
    /\ UNCHANGED <<PID_COUNTER, current_pid, scheduler_ticks, sysVars,
                   panicked, exited, big_calls, traps, spawns, kernVars>>
    /\ Disturb("unblock_process", pid)

(***************************************************************************)
(* syscall.rs: the dispatcher.  The handlers of read, write, open, close,  *)
(* mmap and munmap act on the file system, the keyboard, the console and   *)
(* the memory manager; the numbers offered here are those whose handlers   *)
(* act on the process manager or on nothing, and numbers with no handler.  *)
(***************************************************************************)

\* calls_by_type[n]: the array starts as [0; 256] and the model stores an
\* entry once it has been counted
Entry(by_type, n) == IF n \in DOMAIN by_type THEN by_type[n] ELSE 0

\* calls_by_type[n] += 1
Bump(by_type, n) ==
    [k \in DOMAIN by_type \cup {n} |-> Entry(by_type, k) + (IF k = n THEN 1 ELSE 0)]

\* (mutant) the total is counted inside the range check
StatsUpdateTypedOnly(total, by_type, n) ==
    [total_calls   |-> IF n < NumCallTypes THEN total + 1 ELSE total,
     calls_by_type |-> IF n < NumCallTypes THEN Bump(by_type, n) ELSE by_type]

\* syscall_handler, statistics block: both counters after a call with number n
StatsUpdate(total, by_type, n) ==
    [total_calls   |-> total + 1,
     calls_by_type |-> IF n < NumCallTypes THEN Bump(by_type, n) ELSE by_type]

\* sys_getpid: "simplified version: returns a fixed value"
sys_getpid == 1

\* sys_fork: not implemented
sys_fork == -1

\* sys_execve: -1 for a null filename and -1 otherwise
sys_execve(filename) == IF filename = 0 THEN -1 ELSE -1

\* sys_sleep: busy wait, then 0
sys_sleep(nanoseconds) == 0

\* syscall_handler, the match on syscall_number, for the handlers that return
Dispatch(n, arg1) ==
    CASE n = SYS_FORK   -> sys_fork
      [] n = SYS_EXECVE -> sys_execve(arg1)
      [] n = SYS_GETPID -> sys_getpid
      [] n = SYS_SLEEP  -> sys_sleep(arg1)
      [] OTHER          -> -1

\* syscall_handler called with a number other than SYS_EXIT
syscall_handler(n, arg1) ==
    /\ UNCHANGED <<fsVars, devVars>>
    /\ ~panicked
    /\ n # SYS_EXIT
    /\ total_calls + traps < MaxCalls
    /\ LET st == StatsUpdate(total_calls, calls_by_type, n)
       IN  /\ total_calls' = st.total_calls
           /\ calls_by_type' = st.calls_by_type
    /\ big_calls' = IF n >= NumCallTypes THEN big_calls + 1 ELSE big_calls
    /\ rax' = Dispatch(n, arg1)
    /\ UNCHANGED <<pmVars, panicked, exited, traps, spawns, kernVars>>
    /\ Note("syscall", n)

\* syscall_handler called with SYS_EXIT: sys_exit calls process::exit, which
\* runs terminate_current under the lock, releases the lock and returns;
\* sys_exit then reaches unreachable!(), so the kernel panics and nothing is
\* handed back to the caller
sys_exit(status) ==
    /\ UNCHANGED <<fsVars, devVars>>
    /\ ~panicked
    /\ total_calls + traps < MaxCalls
    /\ LET st == StatsUpdate(total_calls, calls_by_type, SYS_EXIT)
       IN  /\ total_calls' = st.total_calls
           /\ calls_by_type' = st.calls_by_type
    /\ processes' = TerminateEffect(processes, current_pid)
    /\ current_pid' = None
    /\ panicked' = TRUE
    /\ exited' = IF get_current_process(processes, current_pid) # 0
                 THEN exited \cup {current_pid} ELSE exited
    /\ UNCHANGED <<PID_COUNTER, ready_queue, scheduler_ticks, rax,
                   big_calls, traps, spawns, kernVars>>
    /\ Disturb("syscall", SYS_EXIT)

(***************************************************************************)
(* interrupts.rs: the handler installed on vector 0x80.  It prints one     *)
(* line and returns; the "x86-interrupt" ABI restores every register, so   *)
(* rax still holds the number the caller loaded.                           *)
(***************************************************************************)
syscall_interrupt_handler(n) ==
    /\ UNCHANGED <<fsVars, devVars>>
    /\ ~panicked
    /\ total_calls + traps < MaxCalls
    /\ traps' = traps + 1
    /\ rax' = n
    /\ UNCHANGED <<pmVars, sysVars, panicked, exited, big_calls, spawns, kernVars>>
    /\ Note("int80", n)

\* pids offered to unblock_process: every pid that can exist and one that cannot
PidInputs == 1..(MaxProcs + 1)

\* system-call numbers offered to the dispatcher and to int 0x80: those with a
\* handler modelled here, the last number that indexes calls_by_type, the
\* first that does not, and one far outside
SyscallNumbers ==
    {SYS_SLEEP, SYS_GETPID, SYS_FORK, SYS_EXECVE,
     NumCallTypes - 1, NumCallTypes, 999}

\* first arguments offered (a null and a non-null pointer, a status, a duration)
ArgInputs == {0, 1}

Next ==
    \/ add_process
    \/ schedule
    \/ terminate_current
    \/ block_current
    \/ \E pid \in PidInputs : unblock_process(pid)

\* the process manager driven through every method
Spec == Init /\ [][Next]_vars

NextSys ==
    \/ add_process
    \/ schedule
    \/ \E n \in SyscallNumbers, a \in ArgInputs : syscall_handler(n, a)
    \/ \E a \in ArgInputs : sys_exit(a)
    \/ \E n \in SyscallNumbers \cup {SYS_EXIT} : syscall_interrupt_handler(n)

\* processes that are spawned, scheduled and issue system calls
SpecSys == Init /\ [][NextSys]_vars

(***************************************************************************)
(* memory.rs: the frame allocator and allocate_pages.                      *)
(***************************************************************************)

\* usable_frames: the frames of the regions tagged Usable, in map order, as
\* the sequence the iterator yields
RECURSIVE usable_frames(_)
usable_frames(map) ==
    IF map = <<>> THEN <<>>
    ELSE LET r == Head(map)
         IN  (IF r.type = "Usable"
              THEN [i \in 1..(r.end - r.start) |-> r.start + i - 1]
              ELSE <<>>) \o usable_frames(Tail(map))

\* (mutant) allocate_frame that leaves the cursor where it is
allocate_frame_again(nxt) ==
    LET usable == usable_frames(memory_map)
    IN  [frame |-> IF nxt < Len(usable) THEN usable[nxt + 1] ELSE -1,
         next |-> nxt]

\* allocate_frame: usable_frames().nth(next), and next += 1 in every case
allocate_frame(nxt) ==
    LET usable == usable_frames(memory_map)
    IN  [frame |-> IF nxt < Len(usable) THEN usable[nxt + 1] ELSE -1,
         next |-> nxt + 1]

\* find_free_pages: always the page at USER_SPACE_START (offset 0)
find_free_pages(count) == 0

\* allocate_pages, the loop from page i on: a frame is taken, then map_to
\* refuses a page that is already mapped; either failure returns None
RECURSIVE MapPages(_, _, _, _)
MapPages(pages, nxt, i, count) ==
    IF i >= count
    THEN [ok |-> TRUE, user_pages |-> pages, next |-> nxt]
    ELSE LET page == find_free_pages(count) + i
             fr   == allocate_frame(nxt)
         IN  IF fr.frame = -1 \/ page \in pages
             THEN [ok |-> FALSE, user_pages |-> pages, next |-> fr.next]
             ELSE MapPages(pages \cup {page}, fr.next, i + 1, count)

allocate_pages(pages, nxt, count) == MapPages(pages, nxt, 0, count)

(***************************************************************************)
(* The kernel main line after process::init (main.rs) with the timer       *)
(* interrupt (timer.rs).  One CPU: the handler runs with interrupts off,   *)
(* so it is atomic with respect to the main line, and the main line stands *)
(* still while the handler spins.  kernel_main calls spawn_process once    *)
(* (spawn_init_process) and enters scheduler::start; the further calls of  *)
(* spawn_process are those written in init_process.  scheduler::tick drops *)
(* the process schedule() returns and switch_context has no caller, so no  *)
(* instruction of any process entry point (init_process, test_process_1,   *)
(* test_process_2, and with them their calls of exit) is ever executed:    *)
(* the processes appear here as table entries only.                        *)
(***************************************************************************)

MainRuns == irq = "idle" /\ ~panicked

\* spawn_process: PROCESS_MANAGER.lock()
spawn_lock ==
    /\ UNCHANGED <<fsVars, devVars>>
    /\ MainRuns
    /\ pc = "main"
    /\ spawns < MaxProcs
    /\ lock = "free"
    /\ lock' = "main"
    /\ pc' = "spawn_alloc"
    /\ spawns' = spawns + 1
    /\ UNCHANGED <<pmVars, sysVars, TICKS, irq, next, user_pages, rax,
                   panicked, exited, big_calls, traps>>
    /\ Note("spawn_process", 0)

\* spawn_process: allocate_pages(4) succeeds
spawn_alloc ==
    /\ UNCHANGED <<fsVars, devVars>>
    /\ MainRuns
    /\ pc = "spawn_alloc"
    /\ LET r == allocate_pages(user_pages, next, StackPages)
       IN  /\ r.ok
           /\ user_pages' = r.user_pages
           /\ next' = r.next
    /\ pc' = "spawn_add"
    /\ UNCHANGED <<pmVars, sysVars, TICKS, lock, irq, rax, panicked,
                   exited, big_calls, traps, spawns>>
    /\ Note("allocate_pages", StackPages)

\* spawn_process: allocate_pages(4) returns None and expect() panics; the
\* guard of the lock is never dropped
spawn_alloc_failed ==
    /\ UNCHANGED <<fsVars, devVars>>
    /\ MainRuns
    /\ pc = "spawn_alloc"
    /\ LET r == allocate_pages(user_pages, next, StackPages)
       IN  /\ ~r.ok
           /\ user_pages' = r.user_pages
           /\ next' = r.next
    /\ pc' = "panic"
    /\ panicked' = TRUE
    /\ UNCHANGED <<pmVars, sysVars, TICKS, lock, irq, rax,
                   exited, big_calls, traps, spawns>>
    /\ Note("allocate_pages", StackPages)

\* spawn_process: Process::new, add_process
spawn_add ==
    /\ UNCHANGED <<fsVars, devVars>>
    /\ MainRuns
    /\ pc = "spawn_add"
    /\ LET process == ProcessNew(PID_COUNTER)
       IN  /\ PID_COUNTER' = FetchAdd(PID_COUNTER)
           /\ processes' = Append(processes, process)
           /\ ready_queue' = Append(ready_queue, process.pid)
           /\ rax' = process.pid
    /\ pc' = "spawn_unlock"
    /\ UNCHANGED <<current_pid, scheduler_ticks, sysVars, TICKS, lock, irq,
                   next, user_pages, panicked, exited, big_calls, traps,
                   spawns>>
    /\ Disturb("add_process", 0)

\* spawn_process: the guard is dropped
spawn_unlock ==
    /\ UNCHANGED <<fsVars, devVars>>
    /\ MainRuns
    /\ pc = "spawn_unlock"
    /\ lock' = "free"
    /\ pc' = "main"
    /\ UNCHANGED <<pmVars, sysVars, TICKS, irq, next, user_pages, rax,
                   panicked, exited, big_calls, traps, spawns>>
    /\ Note("spawn_process", 0)

\* scheduler::start is entered, or its loop comes round: tick() takes the lock
tick_lock ==
    /\ UNCHANGED <<fsVars, devVars>>
    /\ MainRuns
    /\ pc \in {"main", "loop"}
    /\ spawns >= 1
    /\ lock = "free"
    /\ lock' = "main"
    /\ pc' = "tick_sched"
    /\ UNCHANGED <<pmVars, sysVars, TICKS, irq, next, user_pages, rax,
                   panicked, exited, big_calls, traps, spawns>>
    /\ Note("tick", 0)

\* scheduler::tick on the main line: schedule(), result dropped
tick_sched ==
    /\ UNCHANGED <<fsVars, devVars>>
    /\ MainRuns
    /\ pc = "tick_sched"
    /\ scheduler_ticks < MaxTicks
    /\ ScheduleCall
    /\ pc' = "tick_unlock"
    /\ UNCHANGED <<sysVars, TICKS, lock, irq, next, user_pages, panicked,
                   exited, big_calls, traps, spawns>>

\* scheduler::tick on the main line: the guard is dropped; then hlt
tick_unlock ==
    /\ UNCHANGED <<fsVars, devVars>>
    /\ MainRuns
    /\ pc = "tick_unlock"
    /\ lock' = "free"
    /\ pc' = "hlt"
    /\ UNCHANGED <<pmVars, sysVars, TICKS, irq, next, user_pages, rax,
                   panicked, exited, big_calls, traps, spawns>>
    /\ Note("hlt", 0)

\* timer.rs handle_interrupt while the lock is free: TICKS += 1, tick(), EOI.
\* A main line halted in scheduler::start resumes after the hlt.
timer_interrupt ==
    /\ UNCHANGED <<fsVars, devVars>>
    /\ irq = "idle"
    /\ lock = "free"
    /\ TICKS < MaxTicks
    /\ scheduler_ticks < MaxTicks
    /\ TICKS' = TICKS + 1
    /\ ScheduleCall
    /\ pc' = IF pc = "hlt" THEN "loop" ELSE pc
    /\ UNCHANGED <<sysVars, lock, irq, next, user_pages, panicked,
                   exited, big_calls, traps, spawns>>

\* timer.rs handle_interrupt while the main line holds the lock: TICKS += 1,
\* then tick() spins in PROCESS_MANAGER.lock() with interrupts off
timer_interrupt_spins ==
    /\ UNCHANGED <<fsVars, devVars>>
    /\ irq = "idle"
    /\ lock = "main"
    /\ TICKS < MaxTicks
    /\ TICKS' = TICKS + 1
    /\ irq' = "spin"
    /\ UNCHANGED <<pmVars, sysVars, pc, lock, next, user_pages, rax,
                   panicked, exited, big_calls, traps, spawns>>
    /\ Note("timer_spin", 0)

NextKernel ==
    \/ spawn_lock
    \/ spawn_alloc
    \/ spawn_alloc_failed
    \/ spawn_add
    \/ spawn_unlock
    \/ tick_lock
    \/ tick_sched
    \/ tick_unlock
    \/ timer_interrupt
    \/ timer_interrupt_spins

SpecKernel == Init /\ [][NextKernel]_vars

(***************************************************************************)
(* The file system's methods, one atomic step each (the kernel-wide        *)
(* wrappers of filesystem.rs run every method under the FILESYSTEM lock).  *)
(* Four specifications call them:                                          *)
(*   SpecTree   create, mkdir and list_dir: the name space;                *)
(*   SpecFd     create, open and close: the descriptor table;              *)
(*   SpecIO     create, open, close, read and write on one file;           *)
(*   SpecOrder  two file systems built by the same creations.              *)
(***************************************************************************)

\* a call of a method: the file system it leaves and what the caller gets
FsCall(name, a, r) ==
    /\ vfs' = r.fs
    /\ rax' = Ret(r)
    /\ out' = r.out
    /\ op' = name
    /\ arg' = a
    /\ panicked' = (r.err = "panic")
    /\ UNCHANGED <<pmVars, sysVars, kernVars, sel, order, exited,
                   big_calls, traps, spawns, vfs2, made, made2, devVars>>

create(path, mode) ==
    /\ ~panicked
    /\ FsCall("create", path, vfs_create(vfs, path, mode))
    /\ was_open' = FALSE

mkdir(path, mode) ==
    /\ ~panicked
    /\ FsCall("mkdir", path, vfs_mkdir(vfs, path, mode))
    /\ was_open' = FALSE

open(path, flags) ==
    /\ ~panicked
    /\ FsCall("open", path, vfs_open(vfs, path, flags))
    /\ was_open' = FALSE

close(fd) ==
    /\ ~panicked
    /\ FsCall("close", fd, vfs_close(vfs, fd))
    /\ was_open' = (fd \in DOMAIN vfs.open_files)

read(fd, n) ==
    /\ ~panicked
    /\ FsCall("read", fd, vfs_read(vfs, fd, n))
    /\ was_open' = (fd \in DOMAIN vfs.open_files)

write(fd, buf) ==
    /\ ~panicked
    /\ FsCall("write", fd, vfs_write(vfs, fd, buf))
    /\ was_open' = (fd \in DOMAIN vfs.open_files)

list_dir(path) ==
    /\ ~panicked
    /\ FsCall("list_dir", path, vfs_list_dir(vfs, path))
    /\ was_open' = FALSE

\* inputs of the calls
\* the paths of up to MaxDepth names, and "//a/" for the empty pieces
PathInputs == UNION {[1..n -> Names] : n \in 0..MaxDepth}
                \cup {<<"", "a", "">>}
\* the modes init() gives to its directories and to its file
DirMode    == from_bits(448)
FileMode   == from_bits(384)
ModeInputs == {from_bits(bits) : bits \in {384, 256, 128}}
FlagInputs == {0, 2}
FdInputs   == -1..MAX_OPEN_FILES
\* the buffers 1, 2, .. n (a file is zero-filled where it was never written)
BufInputs  == {[i \in 1..n |-> i] : n \in 0..MaxBuf}
LenInputs  == 0..MaxBuf
\* the one file of SpecFd and SpecIO
FilePath   == <<"a">>

NextTree ==
    \/ \E path \in PathInputs : create(path, FileMode)
    \/ \E path \in PathInputs : mkdir(path, DirMode)
    \/ \E path \in PathInputs : list_dir(path)

SpecTree == Init /\ [][NextTree]_vars

NextFd ==
    \/ create(FilePath, FileMode)
    \/ \E path \in {<<>>, FilePath, <<"b">>}, flags \in FlagInputs :
          open(path, flags)
    \/ \E fd \in FdInputs : close(fd)

SpecFd == Init /\ [][NextFd]_vars

NextIO ==
    \/ \E mode \in ModeInputs : create(FilePath, mode)
    \/ open(FilePath, 0)
    \/ \E fd \in FdInputs : close(fd)
    \/ \E fd \in FdInputs, n \in LenInputs : read(fd, n)
    \/ \E fd \in FdInputs, buf \in BufInputs : write(fd, buf)

SpecIO == Init /\ [][NextIO]_vars

\* create or mkdir, by the kind of the entry
Make(fs, path, dir) ==
    IF dir THEN vfs_mkdir(fs, path, DirMode)
    ELSE vfs_create(fs, path, FileMode)

\* what a successful call has created
Made(path, dir) == [path |-> Split(path), dir |-> dir]

\* a creation in the first file system, of a path not created there before;
\* the first file system is complete when the second is begun
make(path, dir) ==
    /\ made2 = {}
    /\ \A m \in made : m.path # Split(path)
    /\ LET r == Make(vfs, path, dir)
       IN  /\ vfs' = r.fs
           /\ rax' = Ret(r)
           /\ made' = IF r.ok THEN made \cup {Made(path, dir)} ELSE made
    /\ op' = "make"
    /\ UNCHANGED <<pmVars, sysVars, kernVars, panicked, arg, sel, order,
                   exited, big_calls, traps, spawns, out, was_open, vfs2,
                   made2, devVars>>

\* one of the same creations in the second file system
make2(path, dir) ==
    /\ Made(path, dir) \in made
    /\ \A m \in made2 : m.path # Split(path)
    /\ LET r == Make(vfs2, path, dir)
       IN  /\ vfs2' = r.fs
           /\ rax' = Ret(r)
           /\ made2' = IF r.ok THEN made2 \cup {Made(path, dir)} ELSE made2
    /\ op' = "make2"
    /\ UNCHANGED <<pmVars, sysVars, kernVars, panicked, arg, sel, order,
                   exited, big_calls, traps, spawns, out, was_open, vfs,
                   made, devVars>>

NextOrder ==
    \/ \E path \in PathInputs, dir \in BOOLEAN : make(path, dir)
    \/ \E path \in PathInputs, dir \in BOOLEAN : make2(path, dir)

SpecOrder == Init /\ [][NextOrder]_vars

(***************************************************************************)
(* Properties of the process manager (checked under Spec).                 *)
(***************************************************************************)

StateOf(pid) == processes[Find(processes, pid)].state
RunningSet   == {i \in 1..Len(processes) : processes[i].state = Running}

\* C1: in every state reachable through add_process, schedule,
\* terminate_current, block_current and unblock_process, at most one process
\* of the table is Running.
C1_AtMostOneRunning == Cardinality(RunningSet) <= 1

\* C1 witness: schedule has preempted one process in favour of another
C1_Witness ==
    /\ op = "schedule"
    /\ Len(sel) >= 2
    /\ Cardinality(RunningSet) = 1
    /\ \E i \in 1..Len(processes) :
          /\ processes[i].state = Ready
          /\ processes[i].pid = sel[Len(sel) - 1]

\* C2: every id stored in the ready queue is the pid of a process of the
\* table whose state is Ready.
C2_QueueHoldsReady ==
    \A k \in 1..Len(ready_queue) :
        /\ Find(processes, ready_queue[k]) # 0
        /\ StateOf(ready_queue[k]) = Ready

\* C2 witness: the queue holds a freshly added, a preempted and an unblocked
\* process
C2_Witness ==
    /\ op = "unblock_process"
    /\ Len(ready_queue) >= 3
    /\ ready_queue[Len(ready_queue)] = arg
    /\ scheduler_ticks >= 2

\* C3: pids come from a counter that starts at 1 and only grows: the pids of
\* any two processes ever created differ, each later process has the larger
\* pid, and no pid (that of a Terminated process included) is handed out again.
\* Processes are never removed from the table, so the table is the record of
\* every process ever created.
C3_PidsMonotonic ==
    /\ PID_COUNTER >= 1
    /\ \A i \in 1..Len(processes) :
          /\ processes[i].pid >= 1
          /\ processes[i].pid < PID_COUNTER
    /\ \A i, j \in 1..Len(processes) :
          i < j => processes[i].pid < processes[j].pid
    /\ Len(processes) >= 1 => processes[1].pid = 1

\* C3 witness: a process was created after an earlier one had terminated
C3_Witness ==
    /\ op = "add_process"
    /\ Len(processes) >= 2
    /\ \E i \in 1..(Len(processes) - 1) : processes[i].state = Terminated

\* C4: every change of a process's state is one of Ready->Running (schedule
\* selects it), Running->Ready (schedule preempts it), Running->Blocked
\* (block_current), Blocked->Ready (unblock_process with its pid) and
\* Running->Terminated (terminate_current); so a Blocked process stays
\* Blocked, unselected, until it is unblocked, and a Terminated one never
\* changes.  Entries of the table are never removed nor renumbered.
C4_Edge(pid, a, b) ==
    \/ a = b
    \/ a = Ready   /\ b = Running    /\ op' = "schedule" /\ rax' = pid
    \/ a = Running /\ b = Ready      /\ op' = "schedule"
    \/ a = Running /\ b = Blocked    /\ op' = "block_current"
    \/ a = Blocked /\ b = Ready      /\ op' = "unblock_process" /\ arg' = pid
    \/ a = Running /\ b = Terminated /\ op' = "terminate_current"

C4_Step ==
    /\ Len(processes') >= Len(processes)
    /\ \A i \in 1..Len(processes) :
          /\ processes'[i].pid = processes[i].pid
          /\ C4_Edge(processes[i].pid, processes[i].state, processes'[i].state)
    /\ \A i \in (Len(processes) + 1)..Len(processes') :
          processes'[i].state = Ready
    /\ (op' = "schedule" /\ rax' # None) =>
          /\ Find(processes, rax') # 0
          /\ StateOf(rax') \in {Ready, Running}

\* C4 as a property of every step: only the edges above occur
C4_LifecycleEdges == [][C4_Step]_vars

\* C4 witness: one process is Terminated, one is Blocked and a third was
\* unblocked and selected again
C4_Witness ==
    /\ op = "schedule"
    /\ \E i, j, k \in 1..Len(processes) :
          /\ processes[i].state = Terminated
          /\ processes[j].state = Blocked
          /\ processes[k].state = Running
    /\ scheduler_ticks >= 4

\* C5: while N >= 1 processes are runnable and nothing but schedule happens,
\* the k-th scheduling step selects the process at place ((k-1) mod N) + 1 of
\* the ready order, so each is selected once in every N consecutive steps and
\* a lone process is selected on every tick.
C5_RoundRobin ==
    Len(order) >= 1 =>
        \A k \in 1..Len(sel) : sel[k] = order[((k - 1) % Len(order)) + 1]

\* C5 witness: three runnable processes, each selected twice in a row of six
\* scheduling steps
C5_Witness ==
    /\ Len(order) >= 3
    /\ Len(sel) >= 2 * Len(order)
    /\ \A i \in 1..Len(processes) : processes[i].state \in {Ready, Running}

(***************************************************************************)
(* Properties of the running kernel (checked under SpecKernel).            *)
(***************************************************************************)

\* the kernel has stopped (panic, or the handler spinning on the lock) or
\* the tick budget is used up
Stopped == panicked \/ irq = "spin" \/ TICKS >= MaxTicks

\* C6: when two processes that print five lines and exit have been spawned,
\* the timer-driven scheduler runs both and, within the tick budget, both are
\* Terminated.  (Checked under SpecKernel.)
C6_BothTerminate ==
    (spawns >= 2 /\ Stopped) =>
        Cardinality({i \in 1..Len(processes) :
                        processes[i].state = Terminated}) >= 2

(***************************************************************************)
(* Properties of the system-call layer (checked under SpecSys).            *)
(***************************************************************************)

InQueue(pid) == \E k \in 1..Len(ready_queue) : ready_queue[k] = pid

\* C7: the exit system call (60) terminates the current process and does not
\* return: the caller is Terminated, is no longer current nor queued, no later
\* scheduling step selects it, and the other processes stay as they were and
\* are still selected by later scheduling steps.
C7_Exited ==
    \A p \in exited :
        /\ Find(processes, p) # 0
        /\ StateOf(p) = Terminated
        /\ current_pid # p
        /\ ~InQueue(p)

C7_Step ==
    /\ (op' = "syscall" /\ arg' = SYS_EXIT) =>
          /\ panicked'
          /\ rax' = rax
          /\ current_pid' = None
          /\ ready_queue' = ready_queue
          /\ \A i \in 1..Len(processes) :
                IF processes[i].pid = current_pid
                THEN /\ processes'[i].state = Terminated
                     /\ current_pid \in exited'
                ELSE processes'[i] = processes[i]
    /\ op' = "schedule" =>
          /\ rax' \notin exited
          /\ (\E i \in 1..Len(processes) :
                 processes[i].state \in {Ready, Running}) => rax' # None

C8_Step ==
    op' = "int80" =>
        /\ total_calls' = total_calls + 1
        /\ arg' < NumCallTypes =>
              Entry(calls_by_type', arg') = Entry(calls_by_type, arg') + 1
        /\ arg' # SYS_EXIT => \E a \in ArgInputs : rax' = Dispatch(arg', a)

\* C8 as a property of every step: each trap is dispatched
C8_TrapDispatches == [][C8_Step]_vars

\* sum of all entries of calls_by_type
TypedCalls ==
    LET nz == DOMAIN calls_by_type
        RECURSIVE Sum(_)
        Sum(S) == IF S = {} THEN 0
                  ELSE LET k == CHOOSE x \in S : TRUE
                       IN  calls_by_type[k] + Sum(S \ {k})
    IN  Sum(nz)

\* the slots of calls_by_type, and those that differ from 0 (every other
\* slot is 0 before and after any step)
Slots   == 0..(NumCallTypes - 1)
Counted == DOMAIN calls_by_type

\* C9: a dispatcher call with number n adds exactly 1 to total_calls and, when
\* n < 256, exactly 1 to calls_by_type[n], and changes no other counter; no
\* other step changes a counter; total_calls is the sum of calls_by_type plus
\* the calls made with n >= 256.
C9_Step ==
    IF op' = "syscall"
    THEN /\ total_calls' = total_calls + 1
         /\ \A k \in Counted \cup Counted' \cup ({arg'} \cap Slots) :
               Entry(calls_by_type', k) =
                   Entry(calls_by_type, k) + (IF k = arg' THEN 1 ELSE 0)
         /\ Counted' \subseteq Slots
    ELSE UNCHANGED sysVars

\* C9 as a property of every state and step: the counters count the calls
C9_StatsCount ==
    /\ [](total_calls = TypedCalls + big_calls)
    /\ [][C9_Step]_vars

\* C9 witness: a counted call with a typed number and one with n >= 256
C9_Witness ==
    /\ op = "syscall"
    /\ big_calls >= 1
    /\ TypedCalls >= 1
    /\ total_calls >= 2

\* C10: getpid (39) returns the pid of the process that is Running when the
\* call is made.
C10_GetpidReturnsCurrent ==
    (op = "syscall" /\ arg = SYS_GETPID /\ current_pid # None) =>
        rax = current_pid

(***************************************************************************)
(* Properties of the descriptor table (checked under SpecFd).              *)
(***************************************************************************)

\* the slots of the descriptor table that hold an open file
OpenFds == DOMAIN vfs.open_files

\* C11: a descriptor that open returned is closed with result 0, and closing
\* the same descriptor once more gives -1.
C11_Step ==
    op' = "close" =>
       /\ was_open' => rax' = 0
       /\ (op = "close" /\ arg = arg' /\ was_open /\ rax = 0) => rax' = -1

C11_CloseTwice == [][C11_Step]_vars

\* whether open can resolve the path it was given
Resolves(fs, path) == traverse_path(fs, fs.root_inode, Split(path)).ok

\* C12: the table never holds more than MAX_OPEN_FILES open files; with every
\* slot taken open gives -1 and changes no slot; with a slot free (as after a
\* close) an open of a path that resolves succeeds; a successful open returns
\* the lowest free slot and stores its inode there with offset 0.
C12_Table ==
    /\ OpenFds \subseteq 0..(MAX_OPEN_FILES - 1)
    /\ Cardinality(OpenFds) <= MAX_OPEN_FILES

C12_Step ==
    op' = "open" =>
       LET free == (0..(MAX_OPEN_FILES - 1)) \ OpenFds
       IN  /\ free = {} => rax' = -1 /\ vfs' = vfs
           /\ (free # {} /\ Resolves(vfs, arg')) => rax' >= 0
           /\ rax' >= 0 =>
                /\ rax' \in free
                /\ \A fd \in free : rax' <= fd
                /\ DOMAIN vfs'.open_files = OpenFds \cup {rax'}
                /\ \A fd \in OpenFds : vfs'.open_files[fd] = vfs.open_files[fd]
                /\ vfs'.open_files[rax'].offset = 0
                /\ vfs'.open_files[rax'].flags \in FlagInputs
                /\ vfs'.open_files[rax'].inode =
                      traverse_path(vfs, vfs.root_inode, Split(arg')).val
                /\ vfs'.inodes = vfs.inodes

C12_OpenTakesLowestFree == [](C12_Table) /\ [][C12_Step]_vars

\* an open of a path that resolves has just failed on a full table
C12_Witness ==
    /\ op = "open"
    /\ rax = -1
    /\ Resolves(vfs, arg)
    /\ Cardinality(OpenFds) = MAX_OPEN_FILES

\* where sys_read and sys_write send a call, by its descriptor
sys_read_target(fd) ==
    IF fd < 0 THEN "error" ELSE IF fd = 0 THEN "keyboard" ELSE "filesystem"
sys_write_target(fd) ==
    IF fd < 0 THEN "error"
    ELSE IF fd = 1 \/ fd = 2 THEN "console" ELSE "filesystem"

\* C13: open never returns 0, 1 or 2, so that the read and write system calls
\* on a descriptor that open returned go to the file system.
C13_ReservedDescriptors ==
    (op = "open" /\ rax >= 0) =>
       /\ rax \notin {0, 1, 2}
       /\ sys_read_target(rax) = "filesystem"
       /\ sys_write_target(rax) = "filesystem"

(***************************************************************************)
(* Properties of read and write (checked under SpecIO).                    *)
(***************************************************************************)

\* the inode behind an open descriptor
FileOf(fs, fd) == fs.inodes[fs.open_files[fd].inode]

\* what a successful write of buf through fd leaves in the file: the size
\* covers the bytes, and the bytes stand at the offset the descriptor had
Written(fd, buf) ==
    LET o == vfs.open_files[fd].offset
        f == FileOf(vfs', fd)
    IN  /\ f.size >= o + Len(buf)
        /\ Len(f.data) >= o + Len(buf)
        /\ SubSeq(f.data, o + 1, o + Len(buf)) = buf

\* the descriptors of fd's file that stand where fd stood before the write
Readers(fd) ==
    {d \in DOMAIN vfs'.open_files :
        /\ vfs'.open_files[d].inode = vfs.open_files[fd].inode
        /\ vfs'.open_files[d].offset = vfs.open_files[fd].offset}

\* a read of n bytes through d hands back exactly buf
ReadsBack(fs, d, buf) ==
    LET r == vfs_read(fs, d, Len(buf))
    IN  r.ok /\ r.val = Len(buf) /\ r.out = buf

\* C14 as stated: after a successful write of B at offset o the size is at
\* least o + |B|, the bytes at o .. o + |B| are B, and a read of |B| bytes
\* through a descriptor of the file that stands at o returns exactly B.
C14_Step ==
    \A buf \in BufInputs :
       (op' = "write" /\ rax' = Len(buf) /\ write(arg', buf)) =>
          /\ Written(arg', buf)
          /\ \A d \in Readers(arg') : ReadsBack(vfs', d, buf)

C14_WriteReadBack == [][C14_Step]_vars

\* C14, amended: the same, the read returning B when the file's mode has the
\* read bit and failing (with the file unchanged) when it has not.
C14_StepReadable ==
    \A buf \in BufInputs :
       (op' = "write" /\ rax' = Len(buf) /\ write(arg', buf)) =>
          /\ Written(arg', buf)
          /\ \A d \in Readers(arg') :
                IF FileOf(vfs', d).mode.read
                THEN ReadsBack(vfs', d, buf)
                ELSE ~vfs_read(vfs', d, Len(buf)).ok

C14_WriteReadBackReadable == [][C14_StepReadable]_vars

\* a write at an offset above 0 has just succeeded on a readable file, and a
\* second descriptor of the file stands where the written bytes begin
C14_Witness ==
    /\ op = "write"
    /\ rax > 0
    /\ was_open
    /\ FileOf(vfs, arg).mode.read
    /\ \E d \in DOMAIN vfs.open_files \ {arg} :
          /\ vfs.open_files[d].inode = vfs.open_files[arg].inode
          /\ vfs.open_files[d].offset = vfs.open_files[arg].offset - rax
          /\ vfs.open_files[d].offset > 0

\* C15: a successful read through a descriptor at offset o into a buffer of n
\* bytes copies the min(n, size - o) bytes from o on, returns that count and
\* advances the offset by it; the inodes and every other descriptor stay as
\* they were; and no descriptor's offset is ever past the size of its file.
C15_OffsetsInFile ==
    \A fd \in DOMAIN vfs.open_files :
       vfs.open_files[fd].offset <= FileOf(vfs, fd).size

C15_Step ==
    \A n \in LenInputs :
       (op' = "read" /\ rax' >= 0 /\ read(arg', n)) =>
          LET fd == arg'
              o  == vfs.open_files[fd].offset
              f  == FileOf(vfs, fd)
          IN  /\ rax' = Min(n, f.size - o)
              /\ out' = SubSeq(f.data, o + 1, o + rax')
              /\ Len(out') = rax'
              /\ vfs'.open_files[fd].offset = o + rax'
              /\ vfs'.open_files[fd].inode = vfs.open_files[fd].inode
              /\ vfs'.inodes = vfs.inodes
              /\ DOMAIN vfs'.open_files = DOMAIN vfs.open_files
              /\ \A d \in DOMAIN vfs.open_files \ {fd} :
                    vfs'.open_files[d] = vfs.open_files[d]

C15_ReadCopies == [](C15_OffsetsInFile) /\ [][C15_Step]_vars

\* a read has just handed back bytes up to the end of a file that a second
\* descriptor is reading too
C15_Witness ==
    /\ op = "read"
    /\ rax > 0
    /\ was_open
    /\ Len(out) = rax
    /\ vfs.open_files[arg].offset = FileOf(vfs, arg).size
    /\ \E d \in DOMAIN vfs.open_files \ {arg} :
          /\ vfs.open_files[d].inode = vfs.open_files[arg].inode
          /\ vfs.open_files[d].offset < vfs.open_files[arg].offset

\* C16: no inode's data is longer than MAX_FILE_SIZE and no offset is above
\* it; a write with offset + |buf| above MAX_FILE_SIZE is rejected and leaves
\* the file's data and size and the descriptor's offset as they were.
C16_WithinLimit ==
    /\ \A i \in DOMAIN vfs.inodes :
          /\ Len(vfs.inodes[i].data) <= MAX_FILE_SIZE
          /\ vfs.inodes[i].size <= MAX_FILE_SIZE
    /\ \A fd \in DOMAIN vfs.open_files :
          vfs.open_files[fd].offset <= MAX_FILE_SIZE

C16_Step ==
    \A buf \in BufInputs :
       (op' = "write" /\ was_open' /\ write(arg', buf)
          /\ vfs.open_files[arg'].offset + Len(buf) > MAX_FILE_SIZE) =>
             /\ rax' = -1
             /\ vfs'.inodes = vfs.inodes
             /\ vfs'.open_files = vfs.open_files

C16_FileSizeLimit == [](C16_WithinLimit) /\ [][C16_Step]_vars

\* a write through an open descriptor of a writable file has just been
\* rejected, the file being below the limit
C16_Witness ==
    /\ op = "write"
    /\ rax = -1
    /\ was_open
    /\ FileOf(vfs, arg).mode.write
    /\ vfs.open_files[arg].offset < MAX_FILE_SIZE

(***************************************************************************)
(* Properties of the name space (checked under SpecTree).                  *)
(***************************************************************************)

\* the names a path is made of but for the last, and the last
ParentParts(path) == SubSeq(Split(path), 1, Len(Split(path)) - 1)
LastName(path) == Split(path)[Len(Split(path))]

\* the inode create and mkdir take for the parent of the path
ParentOf(fs, path) == traverse_path(fs, fs.root_inode, ParentParts(path))

\* the final name of the path is a child of the path's parent
NameExists(fs, path) ==
    /\ Split(path) # <<>>
    /\ ParentOf(fs, path).ok
    /\ BTreeGet(fs.inodes[ParentOf(fs, path).val].children,
                LastName(path)).some

\* the names of a child map
ChildNames(children) == {children[i].name : i \in 1..Len(children)}

\* a call has allocated exactly the inode number ino and entered it under
\* the final name of the path, as the one new entry of the parent's child map
AddsOneEntry(path, ino) ==
    LET parent == ParentOf(vfs, path).val
        before == vfs.inodes[parent].children
        after  == vfs'.inodes[parent].children
    IN  /\ ino = vfs.next_inode
        /\ vfs'.next_inode = vfs.next_inode + 1
        /\ DOMAIN vfs'.inodes = DOMAIN vfs.inodes \cup {ino}
        /\ ino \notin DOMAIN vfs.inodes
        /\ Len(after) = Len(before) + 1
        /\ ChildNames(after) = ChildNames(before) \cup {LastName(path)}
        /\ BTreeGet(after, LastName(path)).val = ino
        /\ \A name \in ChildNames(before) :
              BTreeGet(after, name) = BTreeGet(before, name)
        /\ \A i \in DOMAIN vfs.inodes \ {parent} :
              vfs'.inodes[i] = vfs.inodes[i]

\* C17: create fails when the final name exists in the parent; a failed create
\* leaves the inode table, the next-inode counter and the parent's child map
\* as they were; a successful create allocates exactly one inode number and
\* adds exactly one entry to the parent's child map.
C17_Step ==
    op' = "create" =>
       /\ NameExists(vfs, arg') => rax' = -1
       /\ rax' = -1 => vfs' = vfs
       /\ rax' >= 0 =>
             /\ AddsOneEntry(arg', rax')
             /\ vfs'.inodes[rax'].file_type = Regular

C17_CreateOnce == [][C17_Step]_vars

\* a create of a name that exists has just failed
C17_Witness ==
    /\ op = "create"
    /\ rax = -1
    /\ NameExists(vfs, arg)
    /\ vfs.next_inode < NumInodes

\* C18: mkdir of a path whose final name exists in the parent is rejected, no
\* inode is allocated and the child entry keeps pointing to its inode.
C18_Step ==
    (op' = "mkdir" /\ NameExists(vfs, arg')) =>
       /\ rax' = -1
       /\ vfs'.next_inode = vfs.next_inode
       /\ DOMAIN vfs'.inodes = DOMAIN vfs.inodes
       /\ BTreeGet(vfs'.inodes[ParentOf(vfs, arg').val].children,
                   LastName(arg'))
             = BTreeGet(vfs.inodes[ParentOf(vfs, arg').val].children,
                        LastName(arg'))

C18_MkdirOnce == [][C18_Step]_vars

\* a piece of the path before the last names an inode that is no directory
ThroughFile(fs, path) ==
    \E k \in 1..(Len(Split(path)) - 1) :
       LET r == traverse_path(fs, fs.root_inode, SubSeq(Split(path), 1, k))
       IN  r.ok /\ fs.inodes[r.val].file_type # Directory

\* C19: a call with a path that leads through an inode that is no directory
\* fails, so that only directories ever have children.
C19_OnlyDirectoriesHaveChildren ==
    \A i \in DOMAIN vfs.inodes :
       vfs.inodes[i].children # <<>> => vfs.inodes[i].file_type = Directory

C19_Step ==
    (op' \in {"create", "mkdir", "list_dir"} /\ ThroughFile(vfs, arg'))
       => rax' = -1

C19_PathsThroughDirectories ==
    [](C19_OnlyDirectoriesHaveChildren) /\ [][C19_Step]_vars

(***************************************************************************)
(* Properties of path resolution (checked under SpecOrder).                *)
(***************************************************************************)

\* the result of resolving a path: Ok(inode number) or the error
Resolve(fs, path) ==
    LET r == traverse_path(fs, fs.root_inode, Split(path))
    IN  [ok |-> r.ok, val |-> r.val, err |-> r.err]

\* what a path resolves to, apart from the inode's number: the error, or the
\* kind and mode of the inode found
Found(fs, path) ==
    LET r == traverse_path(fs, fs.root_inode, Split(path))
    IN  IF r.ok
        THEN [ok |-> TRUE, err |-> "",
              file_type |-> fs.inodes[r.val].file_type,
              mode |-> fs.inodes[r.val].mode]
        ELSE [ok |-> FALSE, err |-> r.err,
              file_type |-> "", mode |-> from_bits(0)]

\* the names list_dir hands back for a path (none when it fails)
Listing(fs, path) ==
    [ok |-> vfs_list_dir(fs, path).ok, names |-> vfs_list_dir(fs, path).out]

\* a list of names in name order, no name twice
InNameOrder(names) ==
    \A i \in 1..(Len(names) - 1) : Rank(names[i]) < Rank(names[i + 1])

\* both file systems hold the same creations
SameCreations == made2 = made

\* C20 as stated: two file systems built by creating the same set of paths in
\* different orders resolve every path identically, and list_dir returns the
\* child names in name order.
C20_SameResolution ==
    SameCreations =>
       \A path \in PathInputs :
          /\ Resolve(vfs, path) = Resolve(vfs2, path)
          /\ Listing(vfs, path) = Listing(vfs2, path)
          /\ InNameOrder(Listing(vfs, path).names)

\* C20, amended: the two file systems resolve every path with the same
\* outcome (the same error, or an inode of the same kind and mode, whose
\* number depends on the order of creation), and list_dir returns the same
\* names in both, in name order.
C20_SameOutcome ==
    SameCreations =>
       \A path \in PathInputs :
          /\ Found(vfs, path) = Found(vfs2, path)
          /\ Listing(vfs, path) = Listing(vfs2, path)
          /\ InNameOrder(Listing(vfs, path).names)
          /\ InNameOrder(Listing(vfs2, path).names)

\* the same two creations were made in the two file systems in different
\* orders, and a directory lists two names
C20_Witness ==
    /\ SameCreations
    /\ Cardinality(made) >= 2
    /\ vfs2 # vfs
    /\ \E path \in PathInputs : Len(Listing(vfs2, path).names) >= 2

(***************************************************************************)
(* The inode table (checked under SpecTree).                               *)
(***************************************************************************)

\* the inode table holds at most NumInodes inodes, the root among them, and
\* only numbers below the counter are in use
C22_Table ==
    /\ vfs.next_inode <= NumInodes
    /\ DOMAIN vfs.inodes \subseteq 0..(vfs.next_inode - 1)
    /\ Cardinality(DOMAIN vfs.inodes) <= NumInodes

\* C22: the file system never holds more than NumInodes inodes, the root
\* included; once that many inode numbers are handed out every create and
\* every mkdir fails and leaves the inode table and all child maps unchanged.
C22_Step ==
    (vfs.next_inode >= NumInodes /\ op' \in {"create", "mkdir"}) =>
        /\ rax' = -1
        /\ vfs' = vfs

C22_InodeLimit == [](C22_Table) /\ [][C22_Step]_vars

\* a mkdir of a path whose parent resolves has just failed on the full table
C22_Witness ==
    /\ op = "mkdir"
    /\ rax = -1
    /\ vfs.next_inode = NumInodes
    /\ Cardinality(DOMAIN vfs.inodes) = NumInodes
    /\ Split(arg) # <<>>
    /\ ParentOf(vfs, arg).ok

(***************************************************************************)
(* Page allocation and the timer handler (checked under SpecKernel).       *)
(***************************************************************************)

\* C26: page allocations do not alias: a call of allocate_pages(n) made while
\* enough frames are left succeeds, whatever earlier calls have mapped, and
\* maps n pages that no earlier call has mapped, each to a fresh frame; so
\* the spawn of a second process succeeds with a stack of its own.
C26_Step ==
    (op' = "allocate_pages" /\ next + arg' <= UsableFrames) =>
        /\ ~panicked'
        /\ pc' = "spawn_add"
        /\ user_pages \subseteq user_pages'
        /\ Cardinality(user_pages' \ user_pages) = arg'
        /\ next' = next + arg'

C26_PagesDoNotAlias == [][C26_Step]_vars

\* C28: a timer interrupt that arrives while the interrupted code holds the
\* process-manager lock does not wait for it: the handler returns without a
\* switch and the interrupted code goes on; the handler never spins forever.
C28_Step ==
    (lock = "main" /\ TICKS' = TICKS + 1) =>
        /\ irq' = "idle"
        /\ pmVars' = pmVars
        /\ lock' = lock
        /\ pc' = pc

C28_TickHookDoesNotWait == [](irq # "spin") /\ [][C28_Step]_vars

(***************************************************************************)
(* drivers/vga.rs: the text console.  The cursor is a pair of static mut   *)
(* words with no lock around them.  A console value is the cursor with the *)
(* cells in which glyphs have been stored; the characters already on the   *)
(* screen, which scroll_up moves with loops over the constant ranges, are  *)
(* not kept.                                                               *)
(***************************************************************************)
NewLine == 10

Console(row, col, cells) == [row |-> row, col |-> col, glyphs |-> cells]

\* new_line
new_line(con) ==
    IF con.row < BUFFER_HEIGHT - 1
    THEN [con EXCEPT !.row = @ + 1, !.col = 0]
    ELSE [con EXCEPT !.col = 0]

\* write_byte
write_byte(con, byte) ==
    IF byte = NewLine THEN new_line(con)
    ELSE LET c == IF con.col >= BUFFER_WIDTH THEN new_line(con) ELSE con
         IN  [c EXCEPT !.glyphs = @ \cup {[row |-> c.row, col |-> c.col]},
                       !.col = @ + 1]

\* write_str_impl's match: printable ASCII and '\n' are written as they are,
\* every other byte as 0xfe
Glyph(b) == IF (b >= 32 /\ b <= 126) \/ b = NewLine THEN b ELSE 254

\* write_str_impl, hence _print of a formatted string
RECURSIVE write_str_impl(_, _)
write_str_impl(con, s) ==
    IF s = <<>> THEN con
    ELSE write_str_impl(write_byte(con, Glyph(Head(s))), Tail(s))

\* the console as the variables hold it, before a step stores anything
Screen == Console(CURSOR_ROW, CURSOR_COL, {})

\* a step leaves the console as con
ConsoleBecomes(con) ==
    /\ CURSOR_ROW' = con.row
    /\ CURSOR_COL' = con.col
    /\ glyphs' = con.glyphs

(***************************************************************************)
(* drivers/keyboard.rs: the keyboard driver and its byte queue.            *)
(***************************************************************************)

\* (mutant) add_byte without the test of the length
add_byte_unbounded(buf, byte) == Append(buf, byte)

\* KeyboardDriver::add_byte
add_byte(buf, byte) ==
    IF Len(buf) < KEYBOARD_BUFFER_SIZE THEN Append(buf, byte) ELSE buf

\* (mutant) read_byte that takes the newest byte
read_byte_from_back(buf) ==
    IF buf = <<>> THEN [some |-> FALSE, val |-> -1, buffer |-> buf]
    ELSE [some |-> TRUE, val |-> buf[Len(buf)],
          buffer |-> SubSeq(buf, 1, Len(buf) - 1)]

\* KeyboardDriver::read_byte: pop_front
read_byte(buf) ==
    IF buf = <<>> THEN [some |-> FALSE, val |-> -1, buffer |-> buf]
    ELSE [some |-> TRUE, val |-> Head(buf), buffer |-> Tail(buf)]

\* read_bytes, the loop with `got` already copied into a slice of length n
RECURSIVE ReadLoop(_, _, _)
ReadLoop(buf, got, n) ==
    LET b == read_byte(buf)
    IN  IF Len(got) < n /\ b.some
        THEN ReadLoop(b.buffer, Append(got, b.val), n)
        ELSE [buffer |-> buf, bytes |-> got, count |-> Len(got)]

\* read_bytes under the lock
read_bytes(buf, n) == ReadLoop(buf, <<>>, n)

\* what pc_keyboard decodes a scancode to: a character, a raw key, or nothing
\* (a key release, or a scancode that is part of a longer sequence)
Unicode(character) == [kind |-> "Unicode", ch |-> character, key |-> ""]
RawKey(key)        == [kind |-> "RawKey", ch |-> 0, key |-> key]
NoKey              == [kind |-> "none", ch |-> 0, key |-> ""]

\* character as u8
AsU8(character) == character % 256

\* the bytes of a KeyCode's Debug form
KeyName(key) == IF key = "F1" THEN <<70, 49>> ELSE <<63>>

\* the bytes of format!("Raw key: {:?}\n", key)
RawKeyMessage(key) ==
    <<82, 97, 119, 32, 107, 101, 121, 58, 32>> \o KeyName(key)
        \o <<NewLine>>

\* KeyboardDriver::process_scancode on the decoded key
process_scancode(buf, con, key) ==
    IF key.kind = "Unicode"
    THEN [buffer |-> add_byte(buf, AsU8(key.ch)), console |-> con]
    ELSE IF key.kind = "RawKey"
    THEN [buffer |-> buf,
          console |-> write_str_impl(con, RawKeyMessage(key.key))]
    ELSE [buffer |-> buf, console |-> con]

\* decoded keys that arrive: characters (one beyond a byte), a raw key (F1),
\* nothing
CharInputs == {97, 98, 353}
KeyInputs  == {Unicode(c) : c \in CharInputs} \cup {RawKey("F1"), NoKey}

(***************************************************************************)
(* The keyboard interrupt and read_bytes on the main line, interleaved at  *)
(* lock granularity: read_bytes does not disable interrupts, and the       *)
(* handler runs with interrupts off on top of the main line.               *)
(***************************************************************************)

\* keyboard::handle_interrupt with the KEYBOARD lock free: the scancode is
\* decoded and processed, then EOI
keyboard_interrupt(key) ==
    /\ irq = "idle"
    /\ kbd_lock = "free"
    /\ keys < MaxKeys
    /\ keys' = keys + 1
    /\ LET r == process_scancode(buffer, Screen, key)
       IN  /\ buffer' = r.buffer
           /\ accepted' = IF r.buffer # buffer
                          THEN Append(accepted, AsU8(key.ch)) ELSE accepted
           /\ ConsoleBecomes(r.console)
    /\ op' = "keyboard_interrupt"
    /\ arg' = key
    /\ UNCHANGED <<pmVars, sysVars, kernVars, rax, panicked, sel, order,
                   exited, big_calls, traps, spawns, fsVars, kbd_lock,
                   read_pc, dst, returned, ioVars, memVars, timVars,
                   prtVars, ordVars, bootVars>>

\* keyboard::handle_interrupt while the main line holds the KEYBOARD lock:
\* the scancode is read from the port, then KEYBOARD.lock() spins with
\* interrupts off
keyboard_interrupt_spins ==
    /\ irq = "idle"
    /\ kbd_lock = "main"
    /\ keys < MaxKeys
    /\ keys' = keys + 1
    /\ irq' = "spin"
    /\ op' = "keyboard_spin"
    /\ arg' = 0
    /\ UNCHANGED <<pmVars, sysVars, TICKS, pc, lock, next, user_pages, rax,
                   panicked, sel, order, exited, big_calls, traps, spawns,
                   fsVars, buffer, kbd_lock, read_pc, dst, accepted,
                   returned, conVars, ioVars, memVars, timVars,
                   prtVars, ordVars, bootVars>>

\* read_bytes(buf) with buf.len() = n: KEYBOARD.lock()
read_bytes_lock(n) ==
    /\ MainRuns
    /\ read_pc = "idle"
    /\ kbd_lock = "free"
    /\ kbd_lock' = "main"
    /\ read_pc' = "drain"
    /\ dst' = n
    /\ op' = "read_bytes_lock"
    /\ arg' = n
    /\ UNCHANGED <<pmVars, sysVars, kernVars, rax, panicked, sel, order,
                   exited, big_calls, traps, spawns, fsVars, buffer,
                   accepted, returned, keys, conVars, ioVars, memVars, timVars,
                   prtVars, ordVars, bootVars>>

\* read_bytes: the loop, the count returned, the guard dropped
read_bytes_drain ==
    /\ MainRuns
    /\ read_pc = "drain"
    /\ LET r == read_bytes(buffer, dst)
       IN  /\ buffer' = r.buffer
           /\ out' = r.bytes
           /\ rax' = r.count
           /\ returned' = returned \o r.bytes
    /\ kbd_lock' = "free"
    /\ read_pc' = "idle"
    /\ op' = "read_bytes"
    /\ arg' = dst
    /\ UNCHANGED <<pmVars, sysVars, kernVars, panicked, sel, order, exited,
                   big_calls, traps, spawns, vfs, was_open, vfs2, made,
                   made2, dst, accepted, keys, conVars, ioVars, memVars, timVars,
                   prtVars, ordVars, bootVars>>

DstInputs == 0..(KEYBOARD_BUFFER_SIZE + 1)

NextKbd ==
    \/ \E key \in KeyInputs : keyboard_interrupt(key)
    \/ keyboard_interrupt_spins
    \/ \E n \in DstInputs : read_bytes_lock(n)
    \/ read_bytes_drain

\* the keyboard interrupt against read_bytes on the main line
SpecKbd == Init /\ [][NextKbd]_vars

(***************************************************************************)
(* Properties of the keyboard queue (checked under SpecKbd).               *)
(***************************************************************************)

\* C23: the keyboard buffer never holds more than KEYBOARD_BUFFER_SIZE bytes;
\* a decoded byte that arrives while the buffer is full is dropped without an
\* error and the buffer stays as it was (a byte that finds room is queued at
\* the tail).
C23_Step ==
    (op' = "keyboard_interrupt" /\ arg'.kind = "Unicode") =>
        /\ Len(buffer) >= KEYBOARD_BUFFER_SIZE =>
              /\ buffer' = buffer
              /\ accepted' = accepted
        /\ Len(buffer) < KEYBOARD_BUFFER_SIZE =>
              buffer' = Append(buffer, AsU8(arg'.ch))
        /\ ~panicked'
        /\ irq' = "idle"

C23_BufferBounded ==
    [](Len(buffer) <= KEYBOARD_BUFFER_SIZE) /\ [][C23_Step]_vars

\* a character has just arrived at a full buffer and is not in it
C23_Witness ==
    /\ op = "keyboard_interrupt"
    /\ arg.kind = "Unicode"
    /\ Len(buffer) = KEYBOARD_BUFFER_SIZE
    /\ keys = KEYBOARD_BUFFER_SIZE + 1
    /\ Len(accepted) = KEYBOARD_BUFFER_SIZE
    /\ \A i \in 1..Len(buffer) : buffer[i] # AsU8(arg.ch)

\* s is an initial part of t
IsPrefix(s, t) == Len(s) <= Len(t) /\ SubSeq(t, 1, Len(s)) = s

\* C24: the keyboard buffer is first-in first-out: read_bytes(dst) removes
\* min(|dst|, buffered) bytes from the head, copies them in order and returns
\* their number (0 from an empty buffer); over every interleaving of keyboard
\* interrupts and read_bytes calls the bytes returned, in order, are an
\* initial part of the bytes accepted, in the order of their arrival.
C24_Step ==
    op' = "read_bytes" =>
        LET n == Min(arg', Len(buffer))
        IN  /\ rax' = n
            /\ out' = SubSeq(buffer, 1, n)
            /\ buffer' = SubSeq(buffer, n + 1, Len(buffer))
            /\ returned' = returned \o out'

C24_FirstInFirstOut ==
    [](IsPrefix(returned, accepted) /\ returned \o buffer = accepted)
        /\ [][C24_Step]_vars

\* a read has taken part of what was buffered, after an earlier read, and the
\* bytes handed out so far are not all the same
C24_Witness ==
    /\ op = "read_bytes"
    /\ rax = 1
    /\ buffer # <<>>
    /\ Len(returned) >= 2
    /\ returned[1] # returned[2]

(***************************************************************************)
(* syscall.rs: the read and write system calls.  syscall_handler counts    *)
(* the call and hands it to sys_read or sys_write, which serve descriptor  *)
(* 0 from the keyboard and descriptors 1 and 2 on the console before the   *)
(* file system is asked.                                                   *)
(***************************************************************************)
SYS_READ  == 0
SYS_WRITE == 1

\* core::str::from_utf8 on the buffers offered: ASCII bytes, and the byte
\* 0xff, which no UTF-8 text holds
from_utf8(buf) == \A i \in 1..Len(buf) : buf[i] < 128

\* sys_read(fd, buf, count); buf_null says that buf is the null pointer
sys_read(fd, buf_null, count) ==
    IF fd < 0 \/ buf_null
    THEN [rax |-> -1, fs |-> vfs, buffer |-> buffer, out |-> <<>>]
    ELSE IF fd = 0
    THEN LET r == read_bytes(buffer, count)
         IN  [rax |-> r.count, fs |-> vfs, buffer |-> r.buffer,
              out |-> r.bytes]
    ELSE LET r == vfs_read(vfs, fd, count)
         IN  [rax |-> Ret(r), fs |-> r.fs, buffer |-> buffer, out |-> r.out]

\* sys_write(fd, buf, count) with the count bytes at buf
sys_write(fd, buf_null, buf) ==
    IF fd < 0 \/ buf_null
    THEN [rax |-> -1, fs |-> vfs, console |-> Screen]
    ELSE IF fd = 1 \/ fd = 2
    THEN IF from_utf8(buf)
         THEN [rax |-> Len(buf), fs |-> vfs,
               console |-> write_str_impl(Screen, buf)]
         ELSE [rax |-> -1, fs |-> vfs, console |-> Screen]
    ELSE LET r == vfs_write(vfs, fd, buf)
         IN  [rax |-> Ret(r), fs |-> r.fs, console |-> Screen]

\* syscall_handler: the statistics block, common to every call
CountCall(n) ==
    /\ ~panicked
    /\ total_calls + traps < MaxCalls
    /\ LET st == StatsUpdate(total_calls, calls_by_type, n)
       IN  /\ total_calls' = st.total_calls
           /\ calls_by_type' = st.calls_by_type
    /\ op' = "syscall"
    /\ arg' = n

\* syscall_handler(SYS_READ, fd, buf, count)
syscall_read(fd, buf_null, count) ==
    /\ CountCall(SYS_READ)
    /\ LET r == sys_read(fd, buf_null, count)
       IN  /\ rax' = r.rax
           /\ vfs' = r.fs
           /\ buffer' = r.buffer
           /\ out' = r.out
           /\ returned' = IF fd = 0 /\ r.rax >= 0 THEN returned \o r.out
                          ELSE returned
    /\ fd_arg' = fd
    /\ was_open' = (fd \in DOMAIN vfs.open_files)
    /\ UNCHANGED <<pmVars, kernVars, panicked, sel, order, exited, big_calls,
                   traps, spawns, vfs2, made, made2, kbd_lock, read_pc, dst,
                   accepted, keys, conVars, memVars, timVars,
                   prtVars, ordVars, bootVars>>

\* syscall_handler(SYS_WRITE, fd, buf, count)
syscall_write(fd, buf_null, buf) ==
    /\ CountCall(SYS_WRITE)
    /\ LET r == sys_write(fd, buf_null, buf)
       IN  /\ rax' = r.rax
           /\ vfs' = r.fs
           /\ ConsoleBecomes(r.console)
    /\ fd_arg' = fd
    /\ was_open' = (fd \in DOMAIN vfs.open_files)
    /\ UNCHANGED <<pmVars, kernVars, panicked, sel, order, exited, big_calls,
                   traps, spawns, out, vfs2, made, made2, kbdVars, memVars, timVars,
                   prtVars, ordVars, bootVars>>

\* buffers written: those of the file system's calls, and one that is not
\* UTF-8
WriteInputs == BufInputs \cup {<<255>>}

NextSysIO ==
    \/ \E mode \in ModeInputs : create(FilePath, mode)
    \/ open(FilePath, 0)
    \/ keyboard_interrupt(Unicode(97))
    \/ \E fd \in FdInputs, buf_null \in BOOLEAN, count \in LenInputs :
          syscall_read(fd, buf_null, count)
    \/ \E fd \in FdInputs, buf_null \in BOOLEAN, buf \in WriteInputs :
          syscall_write(fd, buf_null, buf)

\* the read and write system calls on the descriptors of one file
SpecSysIO == Init /\ [][NextSysIO]_vars

(***************************************************************************)
(* Permission checks at the system calls (checked under SpecSysIO).        *)
(***************************************************************************)

\* C21: a read through an open descriptor whose inode lacks the read bit and
\* a write through one whose inode lacks the write bit fail: the system call
\* returns -1 and the file's data, its size and the descriptor's offset are
\* as they were.
C21_Step ==
    (op' = "syscall" /\ arg' \in {SYS_READ, SYS_WRITE} /\ was_open') =>
        LET file   == FileOf(vfs, fd_arg')
            denied == IF arg' = SYS_READ THEN ~file.mode.read
                      ELSE ~file.mode.write
        IN  denied => /\ rax' = -1
                      /\ vfs' = vfs

C21_PermissionDenied == [][C21_Step]_vars

(***************************************************************************)
(* The frame allocator on its own: allocate_frame called again and again   *)
(* on a boot memory map.  The bootloader hands over a map whose regions    *)
(* are in address order and do not overlap.                                *)
(***************************************************************************)

\* how a frame is tagged, or that no region of the map holds it
FrameTags == {"Usable", "Reserved", "none"}

\* the regions of a tagging of the frames from frame i on: a region for
\* every run of frames with one tag
RECURSIVE RegionsOf(_, _)
RegionsOf(tags, i) ==
    IF i >= MaxFrame THEN <<>>
    ELSE LET ends == {j \in (i + 1)..MaxFrame :
                         j = MaxFrame \/ tags[j] # tags[i]}
             end  == CHOOSE j \in ends : \A k \in ends : j <= k
         IN  (IF tags[i] = "none" THEN <<>>
              ELSE <<Region(i, end, tags[i])>>) \o RegionsOf(tags, end)

\* the maps over the frames 0 .. MaxFrame - 1
MapInputs == {RegionsOf(tags, 0) : tags \in [0..(MaxFrame - 1) -> FrameTags]}

\* BootInfoFrameAllocator::init on a memory map: next = 0
InitFrames ==
    /\ Boot
    /\ BroughtUp
    /\ TICKS = 0
    /\ next = 0
    /\ memory_map \in MapInputs

\* a call of allocate_frame (by init_heap, allocate_pages or map_to); calls
\* go on past the end of the usable frames
allocate_frame_call ==
    /\ next < Len(usable_frames(memory_map)) + 2
    /\ LET r == allocate_frame(next)
       IN  /\ next' = r.next
           /\ rax' = r.frame
           /\ frames' = IF r.frame # -1 THEN Append(frames, r.frame)
                        ELSE frames
    /\ op' = "allocate_frame"
    /\ arg' = next
    /\ UNCHANGED <<pmVars, sysVars, TICKS, pc, lock, irq, user_pages,
                   panicked, sel, order, exited, big_calls, traps, spawns,
                   fsVars, kbdVars, conVars, ioVars, memory_map,
                   timVars,
                   prtVars, ordVars, bootVars>>

NextFrames ==
    \/ allocate_frame_call

\* the frame allocator on every boot memory map of the bounds
SpecFrames == InitFrames /\ [][NextFrames]_vars

(***************************************************************************)
(* Properties of the frame allocator (checked under SpecFrames).           *)
(***************************************************************************)

\* the frame lies in a region of the map that is tagged Usable
InUsableRegion(frame) ==
    \E i \in 1..Len(memory_map) :
        /\ memory_map[i].type = "Usable"
        /\ memory_map[i].start <= frame
        /\ frame < memory_map[i].end

\* where the frame stands in the usable-frame sequence
Place(frame) ==
    CHOOSE i \in 1..Len(usable_frames(memory_map)) :
        usable_frames(memory_map)[i] = frame

\* C25: the cursor of the frame allocator never decreases; every frame that
\* allocate_frame returns lies in a region tagged Usable, has not been
\* returned before and is not earlier in the usable-frame sequence than a
\* frame returned before; once the usable frames are used up every later call
\* returns none.
C25_Step ==
    /\ next' >= next
    /\ op' = "allocate_frame" =>
          /\ next >= Len(usable_frames(memory_map)) => rax' = -1
          /\ rax' # -1 =>
                /\ InUsableRegion(rax')
                /\ \A i \in 1..Len(frames) :
                      /\ frames[i] # rax'
                      /\ Place(frames[i]) < Place(rax')

C25_FramesInOrder == [][C25_Step]_vars

\* the map has two usable regions that are not adjacent, every usable frame
\* has been returned, and a second call after the last frame has returned none
C25_Witness ==
    /\ op = "allocate_frame"
    /\ rax = -1
    /\ Len(frames) >= 2
    /\ Len(frames) = Len(usable_frames(memory_map))
    /\ next = Len(frames) + 2
    /\ \E i \in 1..(Len(frames) - 1) : frames[i + 1] > frames[i] + 1

(***************************************************************************)
(* timer.rs: the tick counter and the uptime computed from it, in the      *)
(* arithmetic of the machine word.  fetch_add wraps; the multiplication in *)
(* get_uptime_ms wraps in a build without overflow checks and panics in a  *)
(* build with them.                                                        *)
(***************************************************************************)
TARGET_FREQUENCY == 100
Word == 2 ^ UsizeBits

\* get_uptime_ms without overflow checks: (ticks * 1000) / TARGET_FREQUENCY
get_uptime_ms(ticks) == ((ticks * 1000) % Word) \div TARGET_FREQUENCY

\* the multiplication of get_uptime_ms leaves the machine word
Overflows(ticks) == ticks * 1000 >= Word

\* the kernel with any number of ticks counted
InitTimer ==
    /\ Boot
    /\ BroughtUp
    /\ TICKS \in 0..(Word - 1)
    /\ next = HeapPages
    /\ memory_map = BootMap

\* timer::handle_interrupt with the process-manager lock free:
\* TICKS.fetch_add(1), scheduler::tick(), EOI
handle_interrupt ==
    /\ irq = "idle"
    /\ lock = "free"
    /\ scheduler_ticks < MaxTicks
    /\ TICKS' = (TICKS + 1) % Word
    /\ ScheduleCall
    /\ pc' = IF pc = "hlt" THEN "loop" ELSE pc
    /\ UNCHANGED <<sysVars, lock, irq, next, user_pages, panicked, exited,
                   big_calls, traps, spawns, fsVars, devVars>>

\* get_uptime_ms is called and returns (the product fits the word, or the
\* build has no overflow checks and it wraps)
observe_uptime ==
    /\ MainRuns
    /\ uptime' = get_uptime_ms(TICKS)
    /\ rax' = get_uptime_ms(TICKS)
    /\ op' = "get_uptime_ms"
    /\ arg' = TICKS
    /\ UNCHANGED <<pmVars, sysVars, kernVars, panicked, sel, order, exited,
                   big_calls, traps, spawns, fsVars, kbdVars, conVars,
                   ioVars, memVars, prtVars, ordVars, bootVars>>

\* get_uptime_ms is called in a build with overflow checks and the product
\* leaves the word: panic
observe_uptime_panics ==
    /\ MainRuns
    /\ Overflows(TICKS)
    /\ panicked' = TRUE
    /\ op' = "get_uptime_ms"
    /\ arg' = TICKS
    /\ UNCHANGED <<pmVars, sysVars, kernVars, rax, sel, order, exited,
                   big_calls, traps, spawns, fsVars, devVars>>

NextTimer ==
    \/ handle_interrupt
    \/ observe_uptime
    \/ observe_uptime_panics

\* the timer interrupt and readers of the uptime
SpecTimer == InitTimer /\ [][NextTimer]_vars

(***************************************************************************)
(* Properties of the tick counter (checked under SpecTimer).               *)
(***************************************************************************)

\* C27: each timer interrupt increases the tick counter by exactly one and
\* the counter never decreases; the uptime in milliseconds never decreases
\* from one observation to the next, for every tick count that the counter
\* can hold.
C27_Step ==
    /\ TICKS' # TICKS => TICKS' = TICKS + 1
    /\ op' = "get_uptime_ms" =>
          /\ ~panicked'
          /\ uptime' >= uptime

C27_UptimeMonotonic == [][C27_Step]_vars

(***************************************************************************)
(* The console written by the main line, one access to the cursor at a     *)
(* time, with the keyboard interrupt in between: _print takes no lock and  *)
(* does not disable interrupts, and interrupts are enabled while the main  *)
(* line prints.  The handler runs with interrupts off, so its own write is *)
(* one step.  The cursor words are static mut, not volatile: where the     *)
(* code reads a word it has just read (CURSOR_ROW in new_line, CURSOR_COL  *)
(* in write_byte) the build may read it again or keep the value it has.    *)
(***************************************************************************)

\* the main line leaves the print variables as given
Printing(to, rest, row, col) ==
    /\ MainRuns
    /\ wpc' = to
    /\ pending' = rest
    /\ lrow' = row
    /\ lcol' = col
    /\ op' = "print"
    /\ arg' = 0
    /\ UNCHANGED <<pmVars, sysVars, kernVars, rax, panicked, sel, order,
                   exited, big_calls, traps, spawns, fsVars, kbdVars, ioVars,
                   memVars, timVars, ordVars, bootVars>>

\* _print(s): write_str_impl begins its loop over the bytes of s
print_begin(s) ==
    /\ wpc = "idle"
    /\ Printing("byte", s, lrow, lcol)
    /\ UNCHANGED conVars

\* write_byte(b): the match on the byte, and for a glyph the test of
\* CURSOR_COL against BUFFER_WIDTH
write_byte_test ==
    /\ wpc = "byte"
    /\ Printing(IF Glyph(Head(pending)) = NewLine
                   \/ CURSOR_COL >= BUFFER_WIDTH
                THEN "new_line" ELSE "load",
                pending, lrow, lcol)
    /\ UNCHANGED conVars

\* new_line: CURSOR_ROW is read and compared with BUFFER_HEIGHT - 1
new_line_test ==
    /\ wpc = "new_line"
    /\ Printing(IF CURSOR_ROW < BUFFER_HEIGHT - 1 THEN "inc" ELSE "scroll",
                pending, CURSOR_ROW, lcol)
    /\ UNCHANGED conVars

\* after new_line: the byte is done if it was '\n', else its glyph is stored
AfterNewLine == IF Glyph(Head(pending)) = NewLine THEN "done" ELSE "load"

\* new_line: CURSOR_ROW += 1 on the value read for the test or on the word
\* as it is now; CURSOR_COL = 0
new_line_inc ==
    /\ wpc = "inc"
    /\ Printing(AfterNewLine, pending, lrow, lcol)
    /\ CURSOR_ROW' \in {lrow + 1, CURSOR_ROW + 1}
    /\ CURSOR_COL' = 0
    /\ glyphs' = {}

\* new_line: scroll_up(); CURSOR_COL = 0
new_line_scroll ==
    /\ wpc = "scroll"
    /\ Printing(AfterNewLine, pending, lrow, lcol)
    /\ CURSOR_COL' = 0
    /\ glyphs' = {}
    /\ UNCHANGED CURSOR_ROW

\* write_byte: let row = CURSOR_ROW; let col = CURSOR_COL
write_byte_load ==
    /\ wpc = "load"
    /\ Printing("store", pending, CURSOR_ROW, CURSOR_COL)
    /\ UNCHANGED conVars

\* write_byte: put_char(row, col, ch)
write_byte_store ==
    /\ wpc = "store"
    /\ Printing("col_inc", pending, lrow, lcol)
    /\ glyphs' = {[row |-> lrow, col |-> lcol]}
    /\ UNCHANGED <<CURSOR_ROW, CURSOR_COL>>

\* write_byte: CURSOR_COL += 1, on the value in col or on the word as it is
write_byte_inc ==
    /\ wpc = "col_inc"
    /\ Printing("done", pending, lrow, lcol)
    /\ CURSOR_COL' \in {lcol + 1, CURSOR_COL + 1}
    /\ glyphs' = {}
    /\ UNCHANGED CURSOR_ROW

\* write_str_impl: the next byte of the string, or the end of _print
next_byte ==
    /\ wpc = "done"
    /\ Printing(IF Len(pending) > 1 THEN "byte" ELSE "idle", Tail(pending),
                lrow, lcol)
    /\ UNCHANGED conVars

\* strings the main line prints: a glyph, and a glyph with the '\n' println!
\* adds
PrintInputs == {<<97>>, <<97, NewLine>>}

NextConsole ==
    \/ \E s \in PrintInputs : print_begin(s)
    \/ write_byte_test
    \/ new_line_test
    \/ new_line_inc
    \/ new_line_scroll
    \/ write_byte_load
    \/ write_byte_store
    \/ write_byte_inc
    \/ next_byte
    \/ keyboard_interrupt(RawKey("F1"))

\* the main line printing, with raw keys pressed
SpecConsole == Init /\ [][NextConsole]_vars

(***************************************************************************)
(* Properties of the console (checked under SpecConsole).                  *)
(***************************************************************************)

\* the glyph stores of a step are within the text buffer
GlyphsOnScreen ==
    \A g \in glyphs : g.row < BUFFER_HEIGHT /\ g.col < BUFFER_WIDTH

\* C30: console writes are serialized: the keyboard handler's raw-key message
\* is never written while a write of the interrupted code is in progress; and
\* in every interleaving each glyph is stored in a cell with row below
\* BUFFER_HEIGHT and column below BUFFER_WIDTH.
C30_Step ==
    (wpc # "idle" /\ op' = "keyboard_interrupt") =>
        (CURSOR_ROW' = CURSOR_ROW /\ CURSOR_COL' = CURSOR_COL /\ glyphs' = {})

C30_ConsoleSerialized == [](GlyphsOnScreen) /\ [][C30_Step]_vars

(***************************************************************************)
(* The spin locks as the main line takes and drops them, function by       *)
(* function, with the two interrupt handlers in between.  A guard lives to *)
(* the end of the block that takes it; a statement of the form             *)
(* *X.lock() = v takes and drops the lock at once.                         *)
(***************************************************************************)
Take(l) == [do |-> "lock", lock |-> l]
Drop(l) == [do |-> "unlock", lock |-> l]
Only(l) == <<Take(l), Drop(l)>>

\* (mutant) spawn_process with the page allocation around the process manager
PathOfReversed(fn) ==
    CASE fn = "spawn_process" ->
            <<Take("MEMORY_MANAGER"), Take("PROCESS_MANAGER"),
              Drop("PROCESS_MANAGER"), Drop("MEMORY_MANAGER")>>
      [] fn \in {"process::init", "exit", "tick"} -> Only("PROCESS_MANAGER")
      [] fn = "init_heap" ->
            <<Take("MEMORY_MANAGER"), Take("ALLOCATOR"), Drop("ALLOCATOR"),
              Drop("MEMORY_MANAGER")>>
      [] fn \in {"memory::init", "sys_mmap", "sys_munmap"} ->
            Only("MEMORY_MANAGER")
      [] fn \in {"filesystem::init", "open", "close", "read", "write",
                 "create_file", "list_directory"} -> Only("FILESYSTEM")
      [] fn \in {"keyboard::init", "read_bytes", "has_data"} ->
            Only("KEYBOARD")
      [] fn = "syscall_read" ->
            Only("SYSCALL_STATS") \o Only("FILESYSTEM")
      [] fn = "syscall_exit" ->
            Only("SYSCALL_STATS") \o Only("PROCESS_MANAGER")
      [] fn = "print_stats" -> Only("SYSCALL_STATS")

\* the locks a function takes and drops, in the order of its code
PathOf(fn) ==
    CASE fn = "spawn_process" ->
            <<Take("PROCESS_MANAGER"), Take("MEMORY_MANAGER"),
              Drop("MEMORY_MANAGER"), Drop("PROCESS_MANAGER")>>
      [] fn \in {"process::init", "exit", "tick"} -> Only("PROCESS_MANAGER")
      [] fn = "init_heap" ->
            <<Take("MEMORY_MANAGER"), Take("ALLOCATOR"), Drop("ALLOCATOR"),
              Drop("MEMORY_MANAGER")>>
      [] fn \in {"memory::init", "sys_mmap", "sys_munmap"} ->
            Only("MEMORY_MANAGER")
      [] fn \in {"filesystem::init", "open", "close", "read", "write",
                 "create_file", "list_directory"} -> Only("FILESYSTEM")
      [] fn \in {"keyboard::init", "read_bytes", "has_data"} ->
            Only("KEYBOARD")
      [] fn = "syscall_read" ->
            Only("SYSCALL_STATS") \o Only("FILESYSTEM")
      [] fn = "syscall_exit" ->
            Only("SYSCALL_STATS") \o Only("PROCESS_MANAGER")
      [] fn = "print_stats" -> Only("SYSCALL_STATS")

\* the functions of the kernel that take a lock
Functions ==
    {"spawn_process", "process::init", "exit", "tick", "init_heap",
     "memory::init", "sys_mmap", "sys_munmap", "filesystem::init", "open",
     "close", "read", "write", "create_file", "list_directory",
     "keyboard::init", "read_bytes", "has_data", "syscall_read",
     "syscall_exit", "print_stats"}

\* the holders of the two locks the handlers take, as the main line's locks
\* give them
Holder(locks, l) ==
    IF \E i \in 1..Len(locks) : locks[i] = l THEN "main" ELSE "free"

\* the main line moves on in its function
Moves(locks, fn, i) ==
    /\ MainRuns
    /\ held' = locks
    /\ in_fn' = fn
    /\ at' = i
    /\ lock' = Holder(locks, "PROCESS_MANAGER")
    /\ kbd_lock' = Holder(locks, "KEYBOARD")
    /\ op' = "locks"
    /\ arg' = 0
    /\ UNCHANGED <<pmVars, sysVars, TICKS, pc, irq, next, user_pages, rax,
                   panicked, sel, order, exited, big_calls, traps, spawns,
                   fsVars, buffer, read_pc, dst, accepted, returned, keys,
                   conVars, ioVars, memVars, timVars, prtVars,
                   bootVars>>

\* the main line enters a function
call(fn) ==
    /\ in_fn = ""
    /\ Moves(held, fn, 1)

\* X.lock() on the main line: no handler is running, so the lock is free
\* unless the main line holds it itself
take_lock ==
    /\ in_fn # ""
    /\ at <= Len(PathOf(in_fn))
    /\ PathOf(in_fn)[at].do = "lock"
    /\ Holder(held, PathOf(in_fn)[at].lock) = "free"
    /\ Moves(Append(held, PathOf(in_fn)[at].lock), in_fn, at + 1)

\* a guard is dropped
drop_lock ==
    /\ in_fn # ""
    /\ at <= Len(PathOf(in_fn))
    /\ PathOf(in_fn)[at].do = "unlock"
    /\ Moves(SelectSeq(held, LAMBDA l : l # PathOf(in_fn)[at].lock), in_fn,
             at + 1)

\* the function returns
return ==
    /\ in_fn # ""
    /\ at > Len(PathOf(in_fn))
    /\ Moves(held, "", 1)

NextLocks ==
    \/ \E fn \in Functions : call(fn)
    \/ take_lock
    \/ drop_lock
    \/ return
    \/ timer_interrupt
    \/ timer_interrupt_spins
    \/ keyboard_interrupt(NoKey)
    \/ keyboard_interrupt_spins

\* the lock-taking functions on the main line, with the timer and keyboard
\* interrupts
SpecLocks == Init /\ [][NextLocks]_vars

(***************************************************************************)
(* Lock order (checked under SpecLocks).                                   *)
(***************************************************************************)

\* the place of a lock in the order process manager, memory manager, file
\* system, driver buffers; 0 for the locks the order does not name
LockRank(l) ==
    CASE l = "PROCESS_MANAGER" -> 1
      [] l = "MEMORY_MANAGER"  -> 2
      [] l = "FILESYSTEM"      -> 3
      [] l = "KEYBOARD"        -> 4
      [] OTHER                 -> 0

\* the named locks among those held were taken in the order
InLockOrder(locks) ==
    \A i, j \in 1..Len(locks) :
        (i < j /\ LockRank(locks[i]) > 0 /\ LockRank(locks[j]) > 0) =>
            LockRank(locks[i]) < LockRank(locks[j])

\* C29: locks are taken in the order process manager, memory manager, file
\* system, driver buffers: no path of the code takes a lock while it holds
\* one that comes later in the order (so two main-line paths cannot block
\* each other by taking two locks in opposite orders); a handler takes its
\* one lock with none of its own held and leaves the main line's locks alone.
C29_Step ==
    /\ Len(held') > Len(held) =>
          \A i \in 1..Len(held) :
              LockRank(held[i]) = 0
                 \/ LockRank(held'[Len(held')]) = 0
                 \/ LockRank(held[i]) < LockRank(held'[Len(held')])
    /\ (TICKS' # TICKS \/ keys' # keys) => held' = held

C29_LockOrder == [](InLockOrder(held)) /\ [][C29_Step]_vars

\* spawn_process holds the process manager and has just taken the memory
\* manager
C29_Witness ==
    /\ in_fn = "spawn_process"
    /\ held = <<"PROCESS_MANAGER", "MEMORY_MANAGER">>

(***************************************************************************)
(* The ready queue and current_pid against the process table (checked      *)
(* under Spec).                                                            *)
(***************************************************************************)

ReadyPids   == {processes[i].pid : i \in {j \in 1..Len(processes) :
                                              processes[j].state = Ready}}
QueuedPids  == {ready_queue[k] : k \in 1..Len(ready_queue)}
RunningPids == {processes[i].pid : i \in RunningSet}

C34_Exact ==
    /\ \A k, l \in 1..Len(ready_queue) :
          ready_queue[k] = ready_queue[l] => k = l
    /\ QueuedPids = ReadyPids
    /\ current_pid # None => RunningPids = {current_pid}
    /\ current_pid = None => RunningPids = {}

\* a call of schedule pops at most the entry it selects: the queue after the
\* call is the queue after the demotion less its head, and that head is the
\* process selected
C34_Step ==
    scheduler_ticks' = scheduler_ticks + 1 =>
        LET pre == Preempt(processes, ready_queue, current_pid)
        IN  IF pre.ready_queue = <<>>
            THEN ready_queue' = <<>> /\ rax' = None
            ELSE /\ ready_queue' = Tail(pre.ready_queue)
                 /\ rax' = Head(pre.ready_queue)
                 /\ current_pid' = Head(pre.ready_queue)

\* C34: in every state of the process manager the ready queue holds no pid
\* twice, the pids in the ready queue are exactly the pids of the processes
\* whose state is Ready, and current_pid names a process exactly when that
\* process is Running and is empty when no process is Running; so the loop of
\* schedule that skips stale entries never discards one.
C34_QueueIsReadySet == [](C34_Exact) /\ [][C34_Step]_vars

\* C34 witness: schedule has selected the head of a queue of several entries
\* while another process of the table is Blocked or Terminated
C34_Witness ==
    /\ op = "schedule"
    /\ rax # None
    /\ current_pid = rax
    /\ Len(ready_queue) >= 1
    /\ \E i \in 1..Len(processes) :
          processes[i].state \in {Blocked, Terminated}

(***************************************************************************)
(* The inode table against the name space and the descriptor table:        *)
(* create, mkdir, open and close on every path.                            *)
(***************************************************************************)

\* the paths offered: the root, two names in it, and a name below the first
\* (which is a file or a directory, as it was created)
LivePaths == {<<>>, <<"a">>, <<"b">>, <<"a", "b">>}

NextLive ==
    \/ \E path \in LivePaths : create(path, FileMode)
    \/ \E path \in LivePaths : mkdir(path, DirMode)
    \/ \E path \in LivePaths : open(path, 0)
    \/ \E fd \in FdInputs : close(fd)

SpecLive == Init /\ [][NextLive]_vars

\* the inode numbers a child map holds
ChildInodes(children) == {children[k].inode : k \in 1..Len(children)}

C32_Live ==
    /\ 0 \in DOMAIN vfs.inodes
    /\ vfs.inodes[0].file_type = Directory
    /\ vfs.root_inode = 0
    /\ \A i \in DOMAIN vfs.inodes :
          ChildInodes(vfs.inodes[i].children) \subseteq DOMAIN vfs.inodes
    /\ \A fd \in DOMAIN vfs.open_files :
          vfs.open_files[fd].inode \in DOMAIN vfs.inodes

\* no call empties a slot of the inode table or changes an inode's type
C32_Step ==
    \A i \in DOMAIN vfs.inodes :
        /\ i \in DOMAIN vfs'.inodes
        /\ vfs'.inodes[i].file_type = vfs.inodes[i].file_type

\* C32: in every state of the file system inode 0 exists and is a Directory,
\* every entry of every child map holds the number of an inode that is in
\* the inode table, and no inode is ever removed, so that the inode of every
\* open descriptor is in the table.
C32_InodesLive == [](C32_Live) /\ [][C32_Step]_vars

\* C32 witness: a descriptor is open on an inode that was entered below a
\* directory other than the root
C32_Witness ==
    /\ op = "open"
    /\ rax >= 0
    /\ rax \in DOMAIN vfs.open_files
    /\ \E i \in DOMAIN vfs.inodes \ {0} :
          vfs.open_files[rax].inode \in ChildInodes(vfs.inodes[i].children)

(***************************************************************************)
(* The size field of an inode against its data (checked under SpecIO).     *)
(***************************************************************************)

\* C33: in every state of the file system the size field of each regular
\* file equals the length of its data, whatever writes were made through
\* whatever descriptors open on the file.
C33_SizeIsDataLen ==
    \A i \in DOMAIN vfs.inodes :
        vfs.inodes[i].file_type = Regular =>
            vfs.inodes[i].size = Len(vfs.inodes[i].data)

\* C33 witness: a write through one descriptor has ended before the end of
\* the data that a second descriptor on the same file had written
C33_Witness ==
    /\ op = "write"
    /\ rax > 0
    /\ was_open
    /\ arg \in DOMAIN vfs.open_files
    /\ vfs.open_files[arg].offset < Len(FileOf(vfs, arg).data)
    /\ \E d \in DOMAIN vfs.open_files \ {arg} :
          /\ vfs.open_files[d].inode = vfs.open_files[arg].inode
          /\ vfs.open_files[d].offset = Len(FileOf(vfs, arg).data)

(***************************************************************************)
(* main.rs: the bring-up.  kernel_main makes its initialization calls one  *)
(* after the other, a step each; init_idt sets the interrupt flag, so the  *)
(* timer and keyboard handlers run between the later steps.  A message is  *)
(* cut to four bytes and its line end, as the screen is scaled.  The body  *)
(* of gdt::init is not followed, and the tree filesystem::init builds is   *)
(* that of the methods driven under SpecTree: here the step stands for its *)
(* store into FILESYSTEM and its use of the heap.                          *)
(***************************************************************************)

\* "[OK]" and the line end of println!
Message == <<91, 79, 75, 93, NewLine>>

\* n calls of println!
RECURSIVE Println(_, _)
Println(con, n) ==
    IF n = 0 THEN con ELSE Println(write_str_impl(con, Message), n - 1)

\* the cells of the text buffer
Cells == {[row |-> r, col |-> c] :
             r \in 0..(BUFFER_HEIGHT - 1), c \in 0..(BUFFER_WIDTH - 1)}

\* kernel_main moves from one call to the next: what has completed, the
\* lines printed since, and what no step of the bring-up touches
KernelMain(from, to, completed, con) ==
    /\ MainRuns
    /\ stage = from
    /\ stage' = to
    /\ inits' = inits \o completed
    /\ ConsoleBecomes(con)
    /\ op' = from
    /\ arg' = 0
    /\ UNCHANGED <<pmVars, sysVars, TICKS, pc, lock, irq, user_pages, rax,
                   sel, order, exited, big_calls, traps, spawns, fsVars,
                   buffer, kbd_lock, read_pc, dst, accepted, returned, keys,
                   ioVars, memory_map, frames, timVars, prtVars, ordVars>>

\* the machine as the boot loader leaves it: interrupts off, no static
\* initialized, the heap range unmapped; the memory map holds the frames of
\* the heap, or one too few
InitBoot ==
    /\ Boot
    /\ TICKS = 0
    /\ next = 0
    /\ memory_map \in {BootMap, <<Region(0, HeapPages - 1, "Usable")>>}
    /\ stage = "gdt"
    /\ inits = <<>>
    /\ ints = FALSE
    /\ singletons = {}
    /\ heap_mapped = 0
    /\ heap_init = FALSE
    /\ allocs = {}

\* the banner, gdt::init(), its message
gdt_init ==
    /\ KernelMain("gdt", "idt", <<"gdt">>, Println(Screen, 3))
    /\ UNCHANGED <<next, panicked, ints, singletons, heap_mapped, heap_init,
                   allocs>>

\* interrupts::init_idt(): the table is loaded, the controllers are set up,
\* the interrupt flag is set
init_idt ==
    /\ KernelMain("idt", "memory", <<"idt">>, Println(Screen, 1))
    /\ ints' = TRUE
    /\ UNCHANGED <<next, panicked, singletons, heap_mapped, heap_init,
                   allocs>>

\* memory::init(boot_info): the mapper and a frame allocator with next = 0
memory_init ==
    /\ KernelMain("memory", "heap", <<"memory">>, Println(Screen, 1))
    /\ next' = 0
    /\ singletons' = singletons \cup {"MEMORY_MANAGER"}
    /\ UNCHANGED <<panicked, ints, heap_mapped, heap_init, allocs>>

\* init_heap's loop from page i on: a frame for each page of the range
RECURSIVE MapHeap(_, _)
MapHeap(nxt, i) ==
    IF i >= HeapPages THEN [ok |-> TRUE, mapped |-> i, next |-> nxt]
    ELSE LET fr == allocate_frame(nxt)
         IN  IF fr.frame = -1
             THEN [ok |-> FALSE, mapped |-> i, next |-> fr.next]
             ELSE MapHeap(fr.next, i + 1)

\* memory::init_heap().expect(..): every page of the range is mapped, then
\* the allocator is given the range; an Err makes kernel_main panic
init_heap ==
    LET r == MapHeap(next, 0)
    IN  /\ IF r.ok
           THEN KernelMain("heap", "processes", <<"heap">>,
                           Println(Screen, 1))
           ELSE KernelMain("heap", "halt", <<>>, Println(Screen, 1))
        /\ next' = r.next
        /\ heap_mapped' = r.mapped
        /\ heap_init' = r.ok
        /\ panicked' = ~r.ok
        /\ UNCHANGED <<ints, singletons, allocs>>

\* process::init(): ProcessManager::new() (empty containers, no allocation)
\* is stored
process_init ==
    /\ KernelMain("processes", "filesystem", <<"processes">>,
                  Println(Screen, 1))
    /\ singletons' = singletons \cup {"PROCESS_MANAGER"}
    /\ UNCHANGED <<next, panicked, ints, heap_mapped, heap_init, allocs>>

\* filesystem::init(): the tables of VirtualFileSystem::new() are the first
\* allocations of the bring-up; without a heap the allocation fails and
\* alloc_error_handler panics
filesystem_init ==
    /\ IF heap_init
       THEN KernelMain("filesystem", "vga", <<"filesystem">>,
                       Println(Screen, 1))
       ELSE KernelMain("filesystem", "halt", <<>>, Println(Screen, 1))
    /\ allocs' = allocs \cup {"filesystem"}
    /\ singletons' = IF heap_init THEN singletons \cup {"FILESYSTEM"}
                     ELSE singletons
    /\ panicked' = ~heap_init
    /\ UNCHANGED <<next, ints, heap_mapped, heap_init>>

\* drivers::init(), first call: vga::init() homes the cursor and clears
\* every row
vga_init ==
    /\ KernelMain("vga", "drivers", <<"console">>, Console(0, 0, Cells))
    /\ UNCHANGED <<next, panicked, ints, singletons, heap_mapped, heap_init,
                   allocs>>

\* drivers::init(), the rest: keyboard::init() (the driver's buffer is
\* allocated with its capacity), timer::init() and its message, the return
drivers_init ==
    /\ KernelMain("drivers", "syscalls", <<"drivers">>, Println(Screen, 2))
    /\ allocs' = allocs \cup {"keyboard"}
    /\ singletons' = singletons \cup {"KEYBOARD"}
    /\ UNCHANGED <<next, panicked, ints, heap_mapped, heap_init>>

\* syscall::init(): a message, nothing else
syscall_init ==
    /\ KernelMain("syscalls", "demo", <<"syscalls">>, Println(Screen, 2))
    /\ UNCHANGED <<next, panicked, ints, singletons, heap_mapped, heap_init,
                   allocs>>

\* an interrupt taken while the static of its handler is still None: the
\* timer handler counts the tick and tick() finds no manager, the keyboard
\* handler reads the scancode and finds no driver
early_interrupt(line) ==
    /\ ints
    /\ irq = "idle"
    /\ \/ /\ line = "timer"
          /\ "PROCESS_MANAGER" \notin singletons
          /\ TICKS < MaxTicks
          /\ TICKS' = TICKS + 1
          /\ UNCHANGED keys
       \/ /\ line = "keyboard"
          /\ "KEYBOARD" \notin singletons
          /\ keys < MaxKeys
          /\ keys' = keys + 1
          /\ UNCHANGED TICKS
    /\ op' = "early_interrupt"
    /\ arg' = 0
    /\ UNCHANGED <<pmVars, sysVars, pc, lock, irq, next, user_pages, rax,
                   panicked, sel, order, exited, big_calls, traps, spawns,
                   fsVars, buffer, kbd_lock, read_pc, dst, accepted, returned,
                   conVars, ioVars, memVars, timVars, prtVars, ordVars,
                   bootVars>>

NextBoot ==
    \/ gdt_init
    \/ init_idt
    \/ memory_init
    \/ init_heap
    \/ process_init
    \/ filesystem_init
    \/ vga_init
    \/ drivers_init
    \/ syscall_init
    \/ \E line \in {"timer", "keyboard"} : early_interrupt(line)
    \/ (ints /\ "PROCESS_MANAGER" \in singletons /\ timer_interrupt)
    \/ (ints /\ "KEYBOARD" \in singletons /\ keyboard_interrupt(Unicode(97)))

SpecBoot == InitBoot /\ [][NextBoot]_vars

\* the order of the initializations as stated
StatedOrder == <<"console", "gdt", "idt", "memory", "heap", "processes",
                 "filesystem", "drivers", "syscalls">>

C31_InOrder ==
    /\ IsPrefix(inits, StatedOrder)
    /\ stage = "demo" => inits = StatedOrder

C31_HeapFirst ==
    allocs # {} => heap_init /\ heap_mapped = HeapPages

\* C31: the bring-up completes its initializations in the order console,
\* GDT, IDT, memory, heap, processes, filesystem, drivers, syscalls, each
\* before the next begins, and the heap range is fully mapped and the heap
\* initialized before the first step that allocates.
C31_BringUpOrder == C31_InOrder /\ C31_HeapFirst

============================================================================
